---- MODULE Spec2Model ----
(***************************************************************************)
(* HackMate room presence and membership: the rooms / room_participants    *)
(* ledger and the stored procedures join_room, leave_room, room_heartbeat, *)
(* cleanup_inactive_participants and regenerate_join_code, run statement   *)
(* by statement as READ COMMITTED transactions with row locks, and the     *)
(* useRoom hook's sweep timer.                                             *)
(*                                                                         *)
(* A transaction buffers its row writes (wrooms, wparts) and publishes     *)
(* them at Commit; the rows in its buffers are the rows it has locked.     *)
(* A statement reads the committed rows overlaid with its own writes and   *)
(* waits while a row it must write is locked by another transaction.       *)
(* Time is counted in ticks of 30 seconds; a stored procedure runs within  *)
(* one tick, so now() is the same for all its statements.                  *)
(***************************************************************************)
EXTENDS Integers, Sequences, FiniteSets, TLC

VARIABLES rooms, parts, txn, last, now, mounted, sweepAt, user_roles, roles, roomRole,
          clock, timers, nextTimer, timeoutId, note,
          room_messages, room_ai_suggestions, messages, suggestions, fetching, suppressed,
          hookRoom, error, retryCount, fetchRoom, epoch,
          isJoined, beatAt, owner, page, multiDeviceWarning,
          participants, refetch, reqs, budget,
          sending, moderator

ledgerVars == <<rooms, parts, txn, last, now, mounted, sweepAt, user_roles, roles, roomRole>>

\* the realtime effect's debouncers and the timer table they schedule in
debounceVars == <<clock, timers, nextTimer, timeoutId, note>>

\* the state of the useRoom hook and of the Room page
\* the message and suggestion tables of the room and the hook's local lists
feedVars == <<room_messages, room_ai_suggestions, messages, suggestions, fetching, suppressed>>

\* the hook's room state (hookRoom) and error state, retryCountRef, and its fetchRoom calls
loadVars == <<hookRoom, error, retryCount, fetchRoom, epoch>>

\* isJoinedRef, the heartbeat interval, and the hook whose call runs in each slot
beatVars == <<isJoined, beatAt, owner>>

\* the Room page over the hook: its roomId, hasJoined and joinError, and its
\* multi-device flag
pageVars == <<page, multiDeviceWarning>>

\* the hook's participant list, its pending refetches and its requests under way
viewVars == <<participants, refetch, reqs, budget>>

\* sendMessage: the call in progress and the invocations of the suggestion service
sendVars == <<sending, moderator>>

hookVars == <<debounceVars, feedVars, sendVars, loadVars, beatVars, pageVars, viewVars>>

vars == <<ledgerVars, hookVars>>

-----------------------------------------------------------------------------
(* Bounds of the model *)

NumUsers == 6
MaxTxn == 2
MaxTime == 8
NumClients == 1
MaxTimers == 5
MaxClock == 12
MaxMessages == 3
MaxSends == 7
MaxSuggestions == 6
ReplayWindow == 2
MaxFetch == 2
MaxReqs == 2
MaxMutations == 1

(* Program constants, in ticks of 30 seconds where they are times *)

MaxParticipants == 5
CheckMaxCount == 5
CodeLength == 6
LivenessThreshold == 4
SweepPeriod == 3
HeartbeatPeriod == 1

(* the debounce delay of 100 ms, in units of 25 ms on the debouncers' clock *)

DebounceDelay == 4

(* maxRetries of fetchRoom; the row limits of fetchMessages and of fetchSuggestions and its handler *)

MaxRetries == 3
MessageLimit == 200
ModerationEvery == 5
SuggestionLimit == 5

Users == 1..NumUsers
Slots == 1..MaxTxn
Clients == 1..NumClients
RoomIds == {"r0", "r1", "r2"}
Devices == {"d1", "d2"}

Chars == <<"A","B","C","D","E","F","G","H","J","K","L","M","N","P","Q","R",
           "S","T","U","V","W","X","Y","Z","2","3","4","5","6","7","8","9">>

\* generate_join_code: six draws, each appended as SUBSTR(chars, draw, 1)
RECURSIVE GenerateJoinCode(_)
GenerateJoinCode(draws) ==
  IF draws = <<>> THEN <<>>
  ELSE GenerateJoinCode(SubSeq(draws, 1, Len(draws) - 1)) \o <<Chars[draws[Len(draws)]]>>

\* the draws of RANDOM() the model enumerates: the last draw varies
DrawSeqs == {[i \in 1..CodeLength |-> IF i = CodeLength THEN c ELSE 1] : c \in 1..3}
CodePool == {GenerateJoinCode(d) : d \in DrawSeqs}
Code1 == GenerateJoinCode([i \in 1..CodeLength |-> 1])
Code2 == GenerateJoinCode([i \in 1..CodeLength |-> IF i = CodeLength THEN 2 ELSE 1])
\* p_join_code NULL (joinCode || null), and the empty text createRoom inserts as
\* join_code, which set_room_join_code leaves as it is (it replaces only NULL)
NoCode == <<"null">>
EmptyCode == <<>>

-----------------------------------------------------------------------------
(* Rows *)

NoRoom ==
  [exists |-> FALSE, created_by |-> 0, status |-> "active", current_user_count |-> 0,
   max_participants |-> 0, join_code |-> NoCode, is_private |-> TRUE, updated_at |-> 0]

\* the row createRoom inserts, with the join_code it has now: the empty text of
\* the insert, or the code of its creator's last regenerate_join_code
NewRoom(creator, code) ==
  [exists |-> TRUE, created_by |-> creator, status |-> "active", current_user_count |-> 0,
   max_participants |-> MaxParticipants, join_code |-> code, is_private |-> TRUE,
   updated_at |-> 0]

Keys == RoomIds \X Users

NoRes == [success |-> FALSE, raised |-> FALSE, already_member |-> FALSE, error |-> ""]
Ok(already) == [success |-> TRUE, raised |-> FALSE, already_member |-> already, error |-> ""]
Fail(msg) == [success |-> FALSE, raised |-> FALSE, already_member |-> FALSE, error |-> msg]
Raise(msg) == [success |-> FALSE, raised |-> TRUE, already_member |-> FALSE, error |-> msg]

EmptyFn == [x \in {} |-> 0]

IdleTxn ==
  [op |-> "none", pc |-> "idle", room |-> "r0", user |-> 0, device |-> "d1",
   code |-> NoCode, wrooms |-> EmptyFn, wparts |-> EmptyFn, snap |-> EmptyFn,
   res |-> NoRes]

InFlight(t) == txn[t].pc # "idle"
NoneInFlight == \A t \in Slots : ~InFlight(t)

\* what transaction t reads: committed rows overlaid with its own writes
RoomsOf(t) == txn[t].wrooms @@ rooms
PartsOf(t) == txn[t].wparts @@ parts

ActiveRows(rows) == {i \in 1..Len(rows) : rows[i].is_active}
\* SELECT COUNT(*) FROM room_participants WHERE room_id = r AND is_active = true
ActiveCount(p, r) ==
  LET RECURSIVE Sum(_)
      Sum(us) == IF us = {} THEN 0
                 ELSE LET u == CHOOSE x \in us : TRUE
                      IN Cardinality(ActiveRows(p[<<r, u>>])) + Sum(us \ {u})
  IN Sum(Users)

\* variant without the upper bound of the CHECK constraint
CountCheckNoUpper(n) == n >= 0

\* CHECK (current_user_count >= 0 AND current_user_count <= 5)
CountCheckOk(n) == n >= 0 /\ n <= CheckMaxCount

\* variant of the sweep's condition without the last_seen test
StaleAny(row) == row.is_active

\* is_active = true AND last_seen < now() - interval '2 minutes'
Stale(row) == row.is_active /\ row.last_seen < now - LivenessThreshold

StaleKeys(p) == {k \in Keys : \E i \in 1..Len(p[k]) : Stale(p[k][i])}

\* the room rows the next statement of t locks (SELECT FOR UPDATE, UPDATE rooms)
RoomsNeeded(t) ==
  CASE txn[t].pc = "j_lock" -> IF rooms[txn[t].room].exists THEN {txn[t].room} ELSE {}
    [] txn[t].pc \in {"j_recount", "j_incr", "l_decr", "g_upd"} -> {txn[t].room}
    [] txn[t].pc = "c_write" -> DOMAIN txn[t].snap
    [] OTHER -> {}

\* the room_participants rows (by their unique key) the next statement of t writes
KeysNeeded(t) ==
  CASE txn[t].pc \in {"j_react", "l_deact", "j_insert"} -> {<<txn[t].room, txn[t].user>>}
    [] txn[t].pc = "h_upd" ->
         IF ActiveRows(PartsOf(t)[<<txn[t].room, txn[t].user>>]) # {}
         THEN {<<txn[t].room, txn[t].user>>} ELSE {}
    [] txn[t].pc = "c_mark" -> StaleKeys(PartsOf(t))
    [] OTHER -> {}

\* t waits for a row lock that t2 holds until it commits or rolls back
WaitsFor(t, t2) ==
  /\ t2 # t
  /\ \/ RoomsNeeded(t) \cap DOMAIN txn[t2].wrooms # {}
     \/ KeysNeeded(t) \cap DOMAIN txn[t2].wparts # {}

Blocked(t) == \E t2 \in Slots : WaitsFor(t, t2)

\* the lock manager's deadlock check: t is on a cycle of waits
RECURSIVE WaitReach(_, _)
WaitReach(S, n) ==
  IF n = 0 THEN S
  ELSE WaitReach(S \cup {t3 \in Slots : \E t2 \in S : WaitsFor(t2, t3)}, n - 1)

Deadlocked(t) == t \in WaitReach({t2 \in Slots : WaitsFor(t, t2)}, MaxTxn)

-----------------------------------------------------------------------------
(* Starting a call, and ending one *)

Begin(t, op, r, u, d, c, pc0) ==
  /\ ~InFlight(t)
  /\ txn' = [txn EXCEPT ![t] = [IdleTxn EXCEPT !.op = op, !.pc = pc0, !.room = r,
                                  !.user = u, !.device = d, !.code = c]]

\* the function returns res; the transaction still holds its locks
Return(t, res) == txn' = [txn EXCEPT ![t].pc = "commit", ![t].res = res]

\* the statement raises: the transaction rolls back and releases its locks
Rollback(t, msg) ==
  txn' = [txn EXCEPT ![t].pc = "failed", ![t].res = Raise(msg),
                     ![t].wrooms = EmptyFn, ![t].wparts = EmptyFn]

\* the transaction commits and the caller gets the function's result (data)
CommitRows(t) ==
  /\ txn[t].pc = "commit"
  /\ rooms' = txn[t].wrooms @@ rooms
  /\ parts' = txn[t].wparts @@ parts
  /\ txn' = [txn EXCEPT ![t] = IdleTxn]

Commit(t) ==
  /\ CommitRows(t)
  /\ UNCHANGED <<now, mounted, sweepAt, user_roles, roles, roomRole, hookVars>>

\* the caller gets the error of the rolled-back call (rpcError)
ReturnError(t) ==
  /\ txn[t].pc = "failed"
  /\ txn' = [txn EXCEPT ![t] = IdleTxn]
  /\ UNCHANGED <<rooms, parts, last, now, mounted, sweepAt, user_roles, roles, roomRole, hookVars>>

\* the last call that completed: what it was, how it ended, and the occupancy of
\* its room before it (history, written by nothing in the program)
NoCall ==
  [op |-> "none", room |-> "r0", user |-> 0, device |-> "d1", code |-> NoCode,
   res |-> NoRes, occ |-> 0]
CallOf(t) ==
  [op |-> txn[t].op, room |-> txn[t].room, user |-> txn[t].user, device |-> txn[t].device,
   code |-> txn[t].code, res |-> txn[t].res, occ |-> rooms[txn[t].room].current_user_count]

Frame == UNCHANGED <<rooms, parts, last, now, mounted, sweepAt, user_roles, roles, roomRole, hookVars>>
Ledger == UNCHANGED <<rooms, parts, last, now, mounted, sweepAt, user_roles, roles, roomRole, hookVars>>

-----------------------------------------------------------------------------
(* join_room *)

BeginJoin(t, r, u, d, c) == Begin(t, "join", r, u, d, c, "j_lock") /\ Ledger

\* variant that reads the room without FOR UPDATE: no lock is taken or waited for
JoinLockRoomNoLock(t) ==
  LET r == txn[t].room IN
  /\ txn[t].pc = "j_lock"
  /\ IF ~rooms[r].exists
     THEN Return(t, Fail("Room not found"))
     ELSE IF rooms[r].status # "active"
     THEN Return(t, Fail("Room is not active"))
     ELSE txn' = [txn EXCEPT ![t].pc = "j_find"]
  /\ Frame

\* SELECT ... FROM rooms WHERE id = p_room_id FOR UPDATE, then the two checks on it
JoinLockRoom(t) ==
  LET r == txn[t].room IN
  /\ txn[t].pc = "j_lock"
  /\ IF ~rooms[r].exists
     THEN Return(t, Fail("Room not found"))
     ELSE /\ ~Blocked(t)
          /\ IF rooms[r].status # "active"
             THEN txn' = [txn EXCEPT ![t].pc = "commit", ![t].res = Fail("Room is not active"),
                                     ![t].wrooms = (r :> rooms[r])]
             ELSE txn' = [txn EXCEPT ![t].pc = "j_find", ![t].wrooms = (r :> rooms[r])]
  /\ Frame

\* variant that accepts any join code
JoinCodeAny(room, u, c) == TRUE

\* IF v_is_private AND v_created_by != p_user_id THEN
\*   IF p_join_code IS NULL OR p_join_code != v_join_code THEN 'Invalid join code'
JoinCodeOk(room, u, c) ==
  (room.is_private /\ room.created_by # u) => (c # NoCode /\ c = room.join_code)

\* variant without the capacity check
RoomNeverFull(room) == FALSE

\* IF v_current_count >= v_max_users THEN 'Room full'
RoomFull(room) == room.current_user_count >= room.max_participants

\* variant that checks the capacity before the join code
JoinFindCapacityFirst(t) ==
  LET r == txn[t].room
      u == txn[t].user
      room == RoomsOf(t)[r]
  IN
  /\ txn[t].pc = "j_find"
  /\ IF PartsOf(t)[<<r, u>>] # <<>>
     THEN txn' = [txn EXCEPT ![t].pc = "j_react"]
     ELSE IF RoomFull(room)
     THEN Return(t, Fail("Room full (5/5 members). Try another room or wait."))
     ELSE IF ~JoinCodeOk(room, u, txn[t].code)
     THEN Return(t, Fail("Invalid join code"))
     ELSE txn' = [txn EXCEPT ![t].pc = "j_insert"]
  /\ Frame

\* variant that inserts the participant row before the two checks
JoinFindInsertFirst(t) ==
  LET r == txn[t].room
      u == txn[t].user
      room == RoomsOf(t)[r]
      held == [txn EXCEPT ![t].wparts = (<<r, u>> :> <<[is_active |-> TRUE, last_seen |-> now,
                                                         device_id |-> txn[t].device,
                                                         room_role |-> "member"]>>)
                                        @@ txn[t].wparts]
  IN
  /\ txn[t].pc = "j_find"
  /\ IF PartsOf(t)[<<r, u>>] # <<>>
     THEN txn' = [txn EXCEPT ![t].pc = "j_react"]
     ELSE IF ~JoinCodeOk(room, u, txn[t].code)
     THEN txn' = [held EXCEPT ![t].pc = "commit", ![t].res = Fail("Invalid join code")]
     ELSE IF RoomFull(room)
     THEN txn' = [held EXCEPT ![t].pc = "commit",
                              ![t].res = Fail("Room full (5/5 members). Try another room or wait.")]
     ELSE txn' = [txn EXCEPT ![t].pc = "j_insert"]
  /\ Frame

\* SELECT id FROM room_participants WHERE room_id = .. AND user_id = ..; when no
\* row is found, the join-code check and the capacity check on the locked room row
JoinFindParticipant(t) ==
  LET r == txn[t].room
      u == txn[t].user
      room == RoomsOf(t)[r]
  IN
  /\ txn[t].pc = "j_find"
  /\ IF PartsOf(t)[<<r, u>>] # <<>>
     THEN txn' = [txn EXCEPT ![t].pc = "j_react"]
     ELSE IF ~JoinCodeOk(room, u, txn[t].code)
     THEN Return(t, Fail("Invalid join code"))
     ELSE IF RoomFull(room)
     THEN Return(t, Fail("Room full (5/5 members). Try another room or wait."))
     ELSE txn' = [txn EXCEPT ![t].pc = "j_insert"]
  /\ Frame

\* variant that refreshes last_seen and device_id but leaves is_active as it is
ReactivatedSeenOnly(row, d) == [row EXCEPT !.last_seen = now, !.device_id = d]

\* SET is_active = true, last_seen = now(), device_id = COALESCE(p_device_id, device_id)
Reactivated(row, d) == [row EXCEPT !.is_active = TRUE, !.last_seen = now, !.device_id = d]

\* UPDATE room_participants ... WHERE room_id = .. AND user_id = ..
JoinReactivate(t) ==
  LET k == <<txn[t].room, txn[t].user>>
      rows == PartsOf(t)[k]
  IN
  /\ txn[t].pc = "j_react"
  /\ ~Blocked(t)
  /\ txn' = [txn EXCEPT ![t].pc = "j_recount",
                        ![t].wparts = (k :> [i \in 1..Len(rows) |-> Reactivated(rows[i], txn[t].device)])
                                      @@ txn[t].wparts]
  /\ Frame

\* variant that adds one to the count on a rejoin instead of recounting
JoinRecountAddOne(t) ==
  LET r == txn[t].room
      n == RoomsOf(t)[r].current_user_count + 1
  IN
  /\ txn[t].pc = "j_recount"
  /\ ~Blocked(t)
  /\ IF CountCheckOk(n)
     THEN txn' = [txn EXCEPT ![t].pc = "commit", ![t].res = Ok(TRUE),
                             ![t].wrooms = (r :> [RoomsOf(t)[r] EXCEPT !.current_user_count = n])
                                           @@ txn[t].wrooms]
     ELSE Rollback(t, "check_violation")
  /\ Frame

\* UPDATE rooms SET current_user_count = (SELECT COUNT(*) ... is_active = true)
JoinRecount(t) ==
  LET r == txn[t].room
      n == ActiveCount(PartsOf(t), r)
  IN
  /\ txn[t].pc = "j_recount"
  /\ ~Blocked(t)
  /\ IF CountCheckOk(n)
     THEN txn' = [txn EXCEPT ![t].pc = "commit", ![t].res = Ok(TRUE),
                             ![t].wrooms = (r :> [RoomsOf(t)[r] EXCEPT !.current_user_count = n])
                                           @@ txn[t].wrooms]
     ELSE Rollback(t, "check_violation")
  /\ Frame

\* room_participants_room_user_unique: UNIQUE (room_id, user_id)
UniqueOk(rows) == rows = <<>>

\* room_role is not among the INSERT's columns: it gets its DEFAULT 'member'
NewParticipant(d) ==
  [is_active |-> TRUE, last_seen |-> now, device_id |-> d, room_role |-> "member"]

\* INSERT INTO room_participants (room_id, user_id, device_id, is_active, last_seen)
JoinInsert(t) ==
  LET k == <<txn[t].room, txn[t].user>>
      rows == PartsOf(t)[k]
  IN
  /\ txn[t].pc = "j_insert"
  /\ ~Blocked(t)
  /\ IF UniqueOk(rows)
     THEN txn' = [txn EXCEPT ![t].pc = "j_incr",
                             ![t].wparts = (k :> Append(rows, NewParticipant(txn[t].device)))
                                           @@ txn[t].wparts]
     ELSE Rollback(t, "unique_violation")
  /\ Frame

\* UPDATE rooms SET current_user_count = current_user_count + 1, updated_at = now()
JoinIncrement(t) ==
  LET r == txn[t].room
      n == RoomsOf(t)[r].current_user_count + 1
  IN
  /\ txn[t].pc = "j_incr"
  /\ ~Blocked(t)
  /\ IF CountCheckOk(n)
     THEN txn' = [txn EXCEPT ![t].pc = "commit", ![t].res = Ok(FALSE),
                             ![t].wrooms = (r :> [RoomsOf(t)[r] EXCEPT !.current_user_count = n,
                                                                     !.updated_at = now])
                                           @@ txn[t].wrooms]
     ELSE Rollback(t, "check_violation")
  /\ Frame

JoinStep(t) ==
  \/ JoinLockRoom(t)
  \/ JoinFindParticipant(t)
  \/ JoinReactivate(t)
  \/ JoinRecount(t)
  \/ JoinInsert(t)
  \/ JoinIncrement(t)

-----------------------------------------------------------------------------
(* leave_room *)

BeginLeave(t, r, u) == Begin(t, "leave", r, u, "d1", NoCode, "l_check") /\ Ledger

\* variant of the membership check without is_active = true
ParticipantExistsAnyRow(rows) == rows # <<>>

\* SELECT EXISTS(... WHERE room_id = .. AND user_id = .. AND is_active = true)
ParticipantExists(rows) == ActiveRows(rows) # {}

LeaveCheck(t) ==
  /\ txn[t].pc = "l_check"
  /\ IF ParticipantExists(PartsOf(t)[<<txn[t].room, txn[t].user>>])
     THEN txn' = [txn EXCEPT ![t].pc = "l_deact"]
     ELSE Return(t, Fail("User not in room"))
  /\ Frame

\* variant whose UPDATE matches the identity's rows in every room
LeaveDeactivateEveryRoom(t) ==
  LET ks == {k \in Keys : k[2] = txn[t].user} IN
  /\ txn[t].pc = "l_deact"
  /\ ~Blocked(t)
  /\ txn' = [txn EXCEPT ![t].pc = "l_decr",
                        ![t].wparts = [k \in ks |->
                                         [i \in 1..Len(PartsOf(t)[k]) |->
                                            [PartsOf(t)[k][i] EXCEPT !.is_active = FALSE,
                                                                     !.last_seen = now]]]
                                      @@ txn[t].wparts]
  /\ Frame

\* UPDATE room_participants SET is_active = false, last_seen = now()
\* WHERE room_id = .. AND user_id = ..
LeaveDeactivate(t) ==
  LET k == <<txn[t].room, txn[t].user>>
      rows == PartsOf(t)[k]
  IN
  /\ txn[t].pc = "l_deact"
  /\ ~Blocked(t)
  /\ txn' = [txn EXCEPT ![t].pc = "l_decr",
                        ![t].wparts = (k :> [i \in 1..Len(rows) |->
                                               [rows[i] EXCEPT !.is_active = FALSE,
                                                               !.last_seen = now]])
                                      @@ txn[t].wparts]
  /\ Frame

\* GREATEST(0, current_user_count - 1)
Decremented(n) == IF n - 1 > 0 THEN n - 1 ELSE 0

\* UPDATE rooms SET current_user_count = GREATEST(0, current_user_count - 1),
\* updated_at = now() WHERE id = p_room_id
LeaveDecrement(t) ==
  LET r == txn[t].room IN
  /\ txn[t].pc = "l_decr"
  /\ ~Blocked(t)
  /\ txn' = [txn EXCEPT ![t].pc = "commit", ![t].res = Ok(FALSE),
                        ![t].wrooms =
                          (r :> [RoomsOf(t)[r] EXCEPT
                                   !.current_user_count = Decremented(RoomsOf(t)[r].current_user_count),
                                   !.updated_at = now])
                          @@ txn[t].wrooms]
  /\ Frame

LeaveStep(t) ==
  \/ LeaveCheck(t)
  \/ LeaveDeactivate(t)
  \/ LeaveDecrement(t)

-----------------------------------------------------------------------------
(* room_heartbeat *)

BeginHeartbeat(t, r, u) == Begin(t, "heartbeat", r, u, "d1", NoCode, "h_upd") /\ Ledger

\* variant whose UPDATE has no is_active = true and sets the row active
HeartbeatUpdateAnyRow(t) ==
  LET k == <<txn[t].room, txn[t].user>>
      rows == PartsOf(t)[k]
  IN
  /\ txn[t].pc = "h_upd"
  /\ IF rows = <<>>
     THEN Return(t, Fail("Participant not found"))
     ELSE /\ ~Blocked(t)
          /\ txn' = [txn EXCEPT ![t].pc = "commit", ![t].res = Ok(FALSE),
                                ![t].wparts =
                                  (k :> [i \in 1..Len(rows) |->
                                           [rows[i] EXCEPT !.last_seen = now, !.is_active = TRUE]])
                                  @@ txn[t].wparts]
  /\ Frame

\* variant that finds the row but does not write last_seen
HeartbeatUpdateNoTouch(t) ==
  /\ txn[t].pc = "h_upd"
  /\ IF ActiveRows(PartsOf(t)[<<txn[t].room, txn[t].user>>]) = {}
     THEN Return(t, Fail("Participant not found"))
     ELSE Return(t, Ok(FALSE))
  /\ Frame

\* UPDATE room_participants SET last_seen = now()
\* WHERE room_id = .. AND user_id = .. AND is_active = true; IF NOT FOUND ...
HeartbeatUpdate(t) ==
  LET k == <<txn[t].room, txn[t].user>>
      rows == PartsOf(t)[k]
  IN
  /\ txn[t].pc = "h_upd"
  /\ IF ActiveRows(rows) = {}
     THEN Return(t, Fail("Participant not found"))
     ELSE /\ ~Blocked(t)
          /\ txn' = [txn EXCEPT ![t].pc = "commit", ![t].res = Ok(FALSE),
                                ![t].wparts =
                                  (k :> [i \in 1..Len(rows) |->
                                           IF rows[i].is_active
                                           THEN [rows[i] EXCEPT !.last_seen = now]
                                           ELSE rows[i]])
                                  @@ txn[t].wparts]
  /\ Frame

-----------------------------------------------------------------------------
(* cleanup_inactive_participants *)

BeginSweep(t) == Begin(t, "sweep", "r0", 0, "d1", NoCode, "c_mark") /\ Ledger

\* UPDATE room_participants SET is_active = false WHERE <stale>
SweepMark(t) ==
  LET p == PartsOf(t)
      ks == StaleKeys(p)
  IN
  /\ txn[t].pc = "c_mark"
  /\ ~Blocked(t)
  /\ txn' = [txn EXCEPT ![t].pc = "c_snap",
                        ![t].wparts =
                          [k \in ks |-> [i \in 1..Len(p[k]) |->
                                           IF Stale(p[k][i])
                                           THEN [p[k][i] EXCEPT !.is_active = FALSE]
                                           ELSE p[k][i]]]
                          @@ txn[t].wparts]
  /\ Frame

ExistingRooms(rs) == {r \in RoomIds : rs[r].exists}

\* UPDATE rooms r SET current_user_count = (SELECT COUNT(*) ...): the statement's
\* snapshot, in which the subquery is evaluated for every room
SweepSnapshot(t) ==
  /\ txn[t].pc = "c_snap"
  /\ txn' = [txn EXCEPT ![t].pc = "c_write",
                        ![t].snap = [r \in ExistingRooms(RoomsOf(t)) |->
                                       ActiveCount(PartsOf(t), r)]]
  /\ Frame

\* ... and its write of every room row, each at its latest committed version,
\* once no other transaction holds a lock on one of them
SweepRecount(t) ==
  LET rs == DOMAIN txn[t].snap IN
  /\ txn[t].pc = "c_write"
  /\ ~Blocked(t)
  /\ IF \A r \in rs : CountCheckOk(txn[t].snap[r])
     THEN txn' = [txn EXCEPT ![t].pc = "commit", ![t].res = Ok(FALSE),
                             ![t].wrooms =
                               [r \in rs |-> [RoomsOf(t)[r] EXCEPT
                                                !.current_user_count = txn[t].snap[r]]]
                               @@ txn[t].wrooms]
     ELSE Rollback(t, "check_violation")
  /\ Frame

SweepStep(t) ==
  \/ SweepMark(t)
  \/ SweepSnapshot(t)
  \/ SweepRecount(t)

-----------------------------------------------------------------------------
(* regenerate_join_code *)

BeginRegenerate(t, r, u) == Begin(t, "regenerate", r, u, "d1", NoCode, "g_check") /\ Ledger

\* variant that takes every caller for the host
IsHostAny(room, u) == TRUE

\* IF v_created_by != p_user_id THEN 'Only the host can regenerate the join code'
IsHost(room, u) == room.created_by = u

\* SELECT created_by FROM rooms WHERE id = ..; the two checks;
\* v_new_code := generate_join_code()
RegenerateCheck(t, draws) ==
  LET room == RoomsOf(t)[txn[t].room] IN
  /\ txn[t].pc = "g_check"
  /\ IF ~room.exists
     THEN Return(t, Fail("Room not found"))
     ELSE IF ~IsHost(room, txn[t].user)
     THEN Return(t, Fail("Only the host can regenerate the join code"))
     ELSE txn' = [txn EXCEPT ![t].pc = "g_upd", ![t].code = GenerateJoinCode(draws)]
  /\ Frame

\* idx_rooms_join_code: UNIQUE INDEX ON rooms(join_code)
CodeUnique(rs, r, c) == \A r2 \in RoomIds \ {r} : ~(rs[r2].exists /\ rs[r2].join_code = c)

\* UPDATE rooms SET join_code = v_new_code WHERE id = p_room_id
RegenerateUpdate(t) ==
  LET r == txn[t].room IN
  /\ txn[t].pc = "g_upd"
  /\ ~Blocked(t)
  /\ IF CodeUnique(RoomsOf(t), r, txn[t].code)
     THEN txn' = [txn EXCEPT ![t].pc = "commit", ![t].res = Ok(FALSE),
                             ![t].wrooms = (r :> [RoomsOf(t)[r] EXCEPT !.join_code = txn[t].code])
                                           @@ txn[t].wrooms]
     ELSE Rollback(t, "unique_violation")
  /\ Frame

RegenerateStep(t) ==
  \/ \E draws \in DrawSeqs : RegenerateCheck(t, draws)
  \/ RegenerateUpdate(t)

-----------------------------------------------------------------------------
(* createRoom and the trigger set_room_join_code *)

\* BEFORE INSERT ON rooms: IF NEW.join_code IS NULL THEN NEW.join_code := generate_join_code()
SetRoomJoinCode(code, draws) == IF code = NoCode THEN GenerateJoinCode(draws) ELSE code

\* the record of a createRoom call that ended at its insert (history)
Created(r, u, c, res) ==
  [NoCall EXCEPT !.op = "create", !.room = r, !.user = u, !.code = c, !.res = res]

\* createRoom by identity u: the insert with join_code: '' runs the trigger and
\* the unique index idx_rooms_join_code; on insertError the call returns the
\* failure, otherwise it goes on to supabase.rpc('join_room', ..., p_join_code: null).
\* r is the id the store gives the new row.
CreateRoom(t, r, u, draws) ==
  LET c == SetRoomJoinCode(EmptyCode, draws) IN
  /\ ~rooms[r].exists
  /\ ~InFlight(t)
  /\ IF CodeUnique(rooms, r, c)
     THEN /\ rooms' = [rooms EXCEPT ![r] = NewRoom(u, c)]
          /\ txn' = [txn EXCEPT ![t] = [IdleTxn EXCEPT !.op = "join", !.pc = "j_lock", !.room = r,
                                          !.user = u, !.device = "d1", !.code = NoCode]]
          /\ last' = Created(r, u, c, Ok(FALSE))
     ELSE /\ UNCHANGED <<rooms, txn>>
          /\ last' = Created(r, u, c, Raise("unique_violation"))
  /\ UNCHANGED <<parts, now, mounted, sweepAt, user_roles, roles, roomRole, hookVars>>

-----------------------------------------------------------------------------
(* The lock manager, the clock, and the hook's sweep interval *)

\* deadlock detected: the transaction is rolled back and the call ends with the error
DeadlockAbort(t) ==
  /\ InFlight(t)
  /\ Deadlocked(t)
  /\ Rollback(t, "deadlock detected")
  /\ Frame

\* d ticks pass with no call in flight; a timer that is due fires before the clock
\* moves on, and none fires late
Tick(d, limit) ==
  /\ now + d <= limit
  /\ NoneInFlight
  /\ \A c \in Clients : mounted[c] => sweepAt[c] >= now + d
  /\ now' = now + d
  /\ UNCHANGED <<rooms, parts, txn, last, mounted, sweepAt, user_roles, roles, roomRole, hookVars>>

\* useEffect: cleanupRef.current = setInterval(..., 90000)
Mount(c) ==
  /\ ~mounted[c]
  /\ mounted' = [mounted EXCEPT ![c] = TRUE]
  /\ sweepAt' = [sweepAt EXCEPT ![c] = now + SweepPeriod]
  /\ UNCHANGED <<rooms, parts, txn, last, now, user_roles, roles, roomRole, hookVars>>

\* the effect's cleanup: clearInterval(cleanupRef.current)
Unmount(c) ==
  /\ mounted[c]
  /\ mounted' = [mounted EXCEPT ![c] = FALSE]
  /\ sweepAt' = [sweepAt EXCEPT ![c] = 0]
  /\ UNCHANGED <<rooms, parts, txn, last, now, user_roles, roles, roomRole, hookVars>>

\* the interval's callback: supabase.rpc('cleanup_inactive_participants')
SweepTimer(c, t) ==
  /\ mounted[c]
  /\ sweepAt[c] = now
  /\ Begin(t, "sweep", "r0", 0, "d1", NoCode, "c_mark")
  /\ sweepAt' = [sweepAt EXCEPT ![c] = now + SweepPeriod]
  /\ UNCHANGED <<rooms, parts, last, now, mounted, user_roles, roles, roomRole, hookVars>>

-----------------------------------------------------------------------------
(* Global roles (user_roles and its policies) and the role hooks *)

AppRoles == {"participant", "organizer", "judge"}
RoomRoles == {"member", "organizer", "judge"}
NoRole == "none"

\* the identities whose global roles the model follows
RoleUsers == {1, 2}
RoleRows == RoleUsers \X AppRoles

\* variant that takes every caller for a holder of the role
HasRoleAny(u, r) == TRUE

\* has_role(_user_id, _role): EXISTS (SELECT 1 FROM user_roles WHERE ...)
HasRole(u, r) == <<u, r>> \in user_roles

\* a statement on user_roles by caller: what it is, who ran it, whether it changed
\* the table
RoleCall(op, caller, done) ==
  [NoCall EXCEPT !.op = op, !.user = caller,
                 !.res = IF done THEN Ok(FALSE) ELSE Fail("denied")]

RoleFrame == UNCHANGED <<rooms, parts, txn, now, mounted, sweepAt, roles, roomRole, hookVars>>

\* INSERT INTO user_roles: WITH CHECK (has_role(auth.uid(), 'organizer')), and
\* UNIQUE (user_id, role)
InsertRole(caller, row) ==
  LET done == HasRole(caller, "organizer") /\ row \notin user_roles IN
  /\ user_roles' = IF done THEN user_roles \cup {row} ELSE user_roles
  /\ last' = RoleCall("role_insert", caller, done)
  /\ RoleFrame

\* UPDATE user_roles SET user_id, role WHERE <old row>:
\* USING (has_role(auth.uid(), 'organizer')), and UNIQUE (user_id, role)
UpdateRole(caller, old, new) ==
  LET done == /\ HasRole(caller, "organizer")
              /\ old \in user_roles
              /\ new \notin user_roles \ {old}
  IN
  /\ user_roles' = IF done THEN (user_roles \ {old}) \cup {new} ELSE user_roles
  /\ last' = RoleCall("role_update", caller, done)
  /\ RoleFrame

\* DELETE FROM user_roles WHERE <old row>: USING (has_role(auth.uid(), 'organizer'))
DeleteRole(caller, old) ==
  LET done == HasRole(caller, "organizer") /\ old \in user_roles IN
  /\ user_roles' = IF done THEN user_roles \ {old} ELSE user_roles
  /\ last' = RoleCall("role_delete", caller, done)
  /\ RoleFrame

\* useRoles.fetchRoles: select role from user_roles where user_id = user.id
FetchRoles(c) ==
  /\ roles' = [roles EXCEPT ![c] = {r \in AppRoles : <<c, r>> \in user_roles}]
  /\ last' = RoleCall("fetchRoles", c, TRUE)
  /\ UNCHANGED <<rooms, parts, txn, now, mounted, sweepAt, user_roles, roomRole, hookVars>>

IsOrganizer(rs) == "organizer" \in rs
IsJudge(rs) == "judge" \in rs

\* variant that looks at the global roles before the caller's row
ResolveGlobalFirst(rows, isGlobalOrganizer, isGlobalJudge) ==
  LET act == ActiveRows(rows) IN
  IF isGlobalOrganizer THEN "organizer"
  ELSE IF isGlobalJudge THEN "judge"
  ELSE IF Cardinality(act) = 1 THEN rows[CHOOSE i \in act : TRUE].room_role
  ELSE NoRole

\* fetchRoomRole: the caller's active row (maybeSingle) gives its room_role;
\* without one, isGlobalOrganizer, then isGlobalJudge, then null
ResolveRoomRole(rows, isGlobalOrganizer, isGlobalJudge) ==
  LET act == ActiveRows(rows) IN
  IF Cardinality(act) = 1 THEN rows[CHOOSE i \in act : TRUE].room_role
  ELSE IF isGlobalOrganizer THEN "organizer"
  ELSE IF isGlobalJudge THEN "judge"
  ELSE NoRole

\* useRoomRole's effect for room r1 in client c
FetchRoomRole(c) ==
  /\ roomRole' = [roomRole EXCEPT ![c] =
                    ResolveRoomRole(parts[<<"r1", c>>], IsOrganizer(roles[c]), IsJudge(roles[c]))]
  /\ last' = RoleCall("fetchRoomRole", c, TRUE)
  /\ UNCHANGED <<rooms, parts, txn, now, mounted, sweepAt, user_roles, roles, hookVars>>

\* variant: comments for members only
CanCommentMemberOnly(role) == role = "member"

\* useRoomRole: the permissions derived from roomRole
CanEdit(role) == role = "member"
CanComment(role) == role = "organizer" \/ role = "member"
CanKick(role) == role = "organizer"
IsReadOnly(role) == role = "organizer" \/ role = "judge"

-----------------------------------------------------------------------------
(* createDebouncer and the realtime subscriptions that use it *)

\* debouncedFetchRoom and debouncedFetchParticipants
Debouncers == {"room", "participants"}

NoTimer == 0

\* variant of clearTimeout that cancels nothing
ClearTimeoutNoop(table, id) == table

\* clearTimeout(timeoutId): the pending timer with that id, if any, is removed
ClearTimeout(table, id) == {x \in table : x.id # id}

\* setTimeout(fn, delay): a timer with a fresh id, due one delay from now
SetTimeout(table, id, d) == table \cup {[id |-> id, deb |-> d, due |-> clock + DebounceDelay]}

\* a postgres_changes notification on the channel of debouncer d:
\*   if (timeoutId) clearTimeout(timeoutId); timeoutId = setTimeout(fn, delay)
\* note[d] counts the notifications since the callback last ran (history)
Debounced(d) ==
  /\ nextTimer <= MaxTimers
  /\ timers' = SetTimeout(IF timeoutId[d] # NoTimer THEN ClearTimeout(timers, timeoutId[d])
                          ELSE timers, nextTimer, d)
  /\ timeoutId' = [timeoutId EXCEPT ![d] = nextTimer]
  /\ nextTimer' = nextTimer + 1
  /\ note' = [note EXCEPT ![d].burst = @ + 1, ![d].at = clock]
  /\ UNCHANGED <<ledgerVars, feedVars, sendVars, loadVars, beatVars, pageVars, viewVars, clock>>

\* a timer comes due and the event loop runs its callback, the refetch; timeoutId
\* keeps the id of the timer that fired
TimerFires(x) ==
  /\ x \in timers
  /\ x.due = clock
  /\ timers' = timers \ {x}
  /\ note' = [note EXCEPT ![x.deb].burst = 0, ![x.deb].runs = @ + 1,
                          ![x.deb].coalesced = note[x.deb].burst]
  /\ UNCHANGED <<ledgerVars, feedVars, sendVars, loadVars, beatVars, pageVars, viewVars, clock, nextTimer, timeoutId>>

\* a unit of the debouncers' clock passes; a timer that is due runs first
ClockTick ==
  /\ clock < MaxClock
  /\ \A x \in timers : x.due > clock
  /\ clock' = clock + 1
  /\ UNCHANGED <<ledgerVars, feedVars, sendVars, loadVars, beatVars, pageVars, viewVars, timers, nextTimer, timeoutId, note>>

\* let timeoutId = null, no timer scheduled
InitDebounce ==
  /\ clock = 0
  /\ timers = {}
  /\ nextTimer = 1
  /\ timeoutId = [d \in Debouncers |-> NoTimer]
  /\ note = [d \in Debouncers |-> [burst |-> 0, at |-> 0, runs |-> 0, coalesced |-> 0]]

-----------------------------------------------------------------------------
(* Messages and suggestions: the initial fetches and the INSERT handlers *)

\* The rows of room_messages and room_ai_suggestions of the room carry the ids
\* 1, 2, ... in the order of their created_at; the tables only grow here.
Min(a, b) == IF a < b THEN a ELSE b
Has(list, id) == \E i \in 1..Len(list) : list[i] = id

\* .order('created_at', { ascending: true }).limit(200)
MessagesQuery(n) == [i \in 1..Min(n, MessageLimit) |-> i]

\* .order('created_at', { ascending: false }).limit(5)
SuggestionsQuery(n) == [i \in 1..Min(n, SuggestionLimit) |-> n - i + 1]

\* variant of the messages handler without the duplicate test
AppendMessageAlways(prev, id) == Append(prev, id)

\* prev.some(m => m.id === payload.new.id) ? prev : [...prev, payload.new]
AppendMessage(prev, id) == IF Has(prev, id) THEN prev ELSE Append(prev, id)

\* prev.some(s => s.id === newSuggestion.id) ? prev : [newSuggestion, ...prev].slice(0, 5)
PrependSuggestion(prev, id) ==
  IF Has(prev, id) THEN prev
  ELSE SubSeq(<<id>> \o prev, 1, Min(Len(prev) + 1, SuggestionLimit))

NoFetch == [inflight |-> FALSE, data |-> <<>>]

\* a row is inserted into room_messages (sendMessage's insert, or any other client's)
InsertMessage ==
  /\ room_messages < MaxMessages
  /\ room_messages' = room_messages + 1
  /\ UNCHANGED <<ledgerVars, debounceVars, loadVars, beatVars, pageVars, viewVars, sendVars, room_ai_suggestions, messages, suggestions,
                 fetching, suppressed>>

\* a row is inserted into room_ai_suggestions
InsertSuggestion ==
  /\ room_ai_suggestions < MaxSuggestions
  /\ room_ai_suggestions' = room_ai_suggestions + 1
  /\ UNCHANGED <<ledgerVars, debounceVars, loadVars, beatVars, pageVars, viewVars, sendVars, room_messages, messages, suggestions,
                 fetching, suppressed>>

\* fetchMessages: the query runs on the table as it is now
FetchMessages ==
  /\ ~fetching.messages.inflight
  /\ fetching' = [fetching EXCEPT !.messages =
                    [inflight |-> TRUE, data |-> MessagesQuery(room_messages)]]
  /\ UNCHANGED <<ledgerVars, debounceVars, loadVars, beatVars, pageVars, viewVars, sendVars, room_messages, room_ai_suggestions, messages,
                 suggestions, suppressed>>

\* its response arrives: if (data) setMessages(data); no data on an error
MessagesFetched(ok) ==
  /\ fetching.messages.inflight
  /\ messages' = IF ok THEN fetching.messages.data ELSE messages
  /\ fetching' = [fetching EXCEPT !.messages = NoFetch]
  /\ UNCHANGED <<ledgerVars, debounceVars, loadVars, beatVars, pageVars, viewVars, sendVars, room_messages, room_ai_suggestions,
                 suggestions, suppressed>>

\* fetchSuggestions: the query runs on the table as it is now
FetchSuggestions ==
  /\ ~fetching.suggestions.inflight
  /\ fetching' = [fetching EXCEPT !.suggestions =
                    [inflight |-> TRUE, data |-> SuggestionsQuery(room_ai_suggestions)]]
  /\ UNCHANGED <<ledgerVars, debounceVars, loadVars, beatVars, pageVars, viewVars, sendVars, room_messages, room_ai_suggestions, messages,
                 suggestions, suppressed>>

\* its response arrives: if (data) setSuggestions(data)
SuggestionsFetched(ok) ==
  /\ fetching.suggestions.inflight
  /\ suggestions' = IF ok THEN fetching.suggestions.data ELSE suggestions
  /\ fetching' = [fetching EXCEPT !.suggestions = NoFetch]
  /\ UNCHANGED <<ledgerVars, debounceVars, loadVars, beatVars, pageVars, viewVars, sendVars, room_messages, room_ai_suggestions,
                 messages, suppressed>>

\* the ids an INSERT notification can carry now: the newest rows of the table,
\* each of which may be delivered again
Replayed(n) == {id \in 1..n : id > n - ReplayWindow}

\* messagesChannel's handler; suppressed records that it dropped a notification
OnMessageInsert(id) ==
  /\ id \in Replayed(room_messages)
  /\ messages' = AppendMessage(messages, id)
  /\ suppressed' = [suppressed EXCEPT !.messages = @ \/ Has(messages, id)]
  /\ UNCHANGED <<ledgerVars, debounceVars, loadVars, beatVars, pageVars, viewVars, sendVars, room_messages, room_ai_suggestions,
                 suggestions, fetching>>

\* suggestionsChannel's handler
OnSuggestionInsert(id) ==
  /\ id \in Replayed(room_ai_suggestions)
  /\ suggestions' = PrependSuggestion(suggestions, id)
  /\ suppressed' = [suppressed EXCEPT !.suggestions = @ \/ Has(suggestions, id)]
  /\ UNCHANGED <<ledgerVars, debounceVars, loadVars, beatVars, pageVars, viewVars, sendVars, room_messages, room_ai_suggestions,
                 messages, fetching>>

\* useState<Message[]>([]) and useState<Suggestion[]>([]); the tables are empty
InitFeed ==
  /\ room_messages = 0
  /\ room_ai_suggestions = 0
  /\ messages = <<>>
  /\ suggestions = <<>>
  /\ fetching = [messages |-> NoFetch, suggestions |-> NoFetch]
  /\ suppressed = [messages |-> FALSE, suggestions |-> FALSE]

-----------------------------------------------------------------------------
(* sendMessage and the suggestion service *)

\* what sendMessage is called with: a text that is blank after trim(), or not
Contents == {"", "text"}

IdleSend == [pc |-> "idle", messageCount |-> 0, ret |-> "none"]

\* messageCount > 0 && messageCount % 5 === 0
ShouldModerate(messageCount) ==
  messageCount > 0 /\ messageCount % ModerationEvery = 0

\* sendMessage up to its await: a blank text returns { success: false };
\* otherwise messageCount = messages.length and the insert is sent
SendMessage(content) ==
  /\ sending.pc = "idle"
  /\ room_messages < MaxSends
  /\ sending' = IF content = ""
                THEN [IdleSend EXCEPT !.ret = "failure"]
                ELSE [pc |-> "insert", messageCount |-> Len(messages), ret |-> "none"]
  /\ UNCHANGED <<ledgerVars, debounceVars, feedVars, loadVars, beatVars, pageVars, viewVars,
                 moderator>>

\* the insert's answer: on insertError (or a thrown request) { success: false };
\* otherwise the service is invoked, not awaited, when the count taken before
\* the insert calls for it, and sendMessage returns { success: true }
MessageInserted(ok) ==
  /\ sending.pc = "insert"
  /\ room_messages' = IF ok THEN room_messages + 1 ELSE room_messages
  /\ moderator' = IF ok /\ ShouldModerate(sending.messageCount)
                  THEN [moderator EXCEPT !.calls = @ + 1, !.inflight = @ + 1]
                  ELSE moderator
  /\ sending' = [sending EXCEPT !.pc = "idle",
                                !.ret = IF ok THEN "success" ELSE "failure"]
  /\ UNCHANGED <<ledgerVars, debounceVars, loadVars, beatVars, pageVars, viewVars,
                 room_ai_suggestions, messages, suggestions, fetching, suppressed>>

\* supabase.functions.invoke(...) settles: its result is dropped, and
\* .catch(() => console.debug('AI moderation skipped')) only logs
ModeratorSettles(ok) ==
  /\ moderator.inflight > 0
  /\ moderator' = [moderator EXCEPT !.inflight = @ - 1,
                                    !.skipped = IF ok THEN @ ELSE @ + 1]
  /\ UNCHANGED <<ledgerVars, debounceVars, feedVars, loadVars, beatVars, pageVars, viewVars,
                 sending>>

InitSend ==
  /\ sending = IdleSend
  /\ moderator = [calls |-> 0, inflight |-> 0, skipped |-> 0]

-----------------------------------------------------------------------------
(* fetchRoom *)

\* the calls of fetchRoom that can be in progress at once (loadData, joinRoom, the
\* debounced refetches and the sweep callback all call it)
FetchCalls == 1..MaxFetch

NoError == "null"
NoData == [exists |-> FALSE]

IdleFetch == [pc |-> "idle", retries |-> 0, ret |-> "none"]

\* variant of the retry test that allows one retry more
CanRetryOneMore(n) == n <= MaxRetries

\* retryCountRef.current < maxRetries
CanRetry(n) == n < MaxRetries

\* fetchRoom() is called: the query on rooms is sent; loadData clears the error
\* first (setError(null))
StartFetchRoom(k, initial) ==
  /\ fetchRoom[k].pc = "idle"
  /\ fetchRoom' = [fetchRoom EXCEPT ![k] = [pc |-> "query", retries |-> 0, ret |-> "none"]]
  /\ error' = IF initial THEN NoError ELSE error
  /\ UNCHANGED <<ledgerVars, debounceVars, feedVars, sendVars, beatVars, pageVars, viewVars, hookRoom, retryCount, epoch>>

\* the query answers with an error (no such row, or the request failed):
\*   if (retryCountRef.current < maxRetries) { retryCountRef.current++; await backoff;
\*     return fetchRoom() }  setError('Room not found'); return null
\* retries counts the retries of this call since a fetch last succeeded (history)
FetchRoomError(k) ==
  /\ fetchRoom[k].pc = "query"
  /\ IF CanRetry(retryCount)
     THEN /\ retryCount' = retryCount + 1
          /\ fetchRoom' = [fetchRoom EXCEPT ![k].pc = "backoff", ![k].retries = @ + 1]
          /\ error' = error
     ELSE /\ error' = "Room not found"
          /\ fetchRoom' = [fetchRoom EXCEPT ![k].pc = "idle", ![k].ret = "null"]
          /\ retryCount' = retryCount
  /\ UNCHANGED <<ledgerVars, debounceVars, feedVars, sendVars, beatVars, pageVars, viewVars, hookRoom, epoch>>

\* the backoff of 1000 * retryCount ms is over: return fetchRoom()
FetchRoomRetry(k) ==
  /\ fetchRoom[k].pc = "backoff"
  /\ fetchRoom' = [fetchRoom EXCEPT ![k].pc = "query"]
  /\ UNCHANGED <<ledgerVars, debounceVars, feedVars, sendVars, beatVars, pageVars, viewVars, hookRoom, error, retryCount, epoch>>

\* the query answers with the row: retryCountRef.current = 0; setRoom(data);
\* return data.  epoch flips at every success (history)
FetchRoomData(k) ==
  /\ fetchRoom[k].pc = "query"
  /\ rooms["r1"].exists
  /\ retryCount' = 0
  /\ hookRoom' = rooms["r1"]
  /\ fetchRoom' = [j \in FetchCalls |->
                     IF j = k THEN [pc |-> "idle", retries |-> 0, ret |-> "data"]
                     ELSE [fetchRoom[j] EXCEPT !.retries = 0]]
  /\ epoch' = 1 - epoch
  /\ UNCHANGED <<ledgerVars, debounceVars, feedVars, sendVars, beatVars, pageVars, viewVars, error>>

\* the query throws: catch (e) { setError('Failed to load room'); return null }
FetchRoomThrows(k) ==
  /\ fetchRoom[k].pc = "query"
  /\ error' = "Failed to load room"
  /\ fetchRoom' = [fetchRoom EXCEPT ![k].pc = "idle", ![k].ret = "null"]
  /\ UNCHANGED <<ledgerVars, debounceVars, feedVars, sendVars, beatVars, pageVars, viewVars, hookRoom, retryCount, epoch>>

\* useState<Room | null>(null), useState<string | null>(null), useRef(0)
InitLoad ==
  /\ hookRoom = NoData
  /\ error = NoError
  /\ retryCount = 0
  /\ fetchRoom = [k \in FetchCalls |-> IdleFetch]
  /\ epoch = 0

-----------------------------------------------------------------------------
(* The hook's session: isJoinedRef, the heartbeat interval, the calls it makes *)

\* Hook c is the useRoom instance in the tab of identity c, on room r1.
\* owner[t] is the hook whose call runs in slot t, 0 for a call of anyone else.
NoHook == 0

\* variant of clearInterval that cancels nothing
ClearIntervalNoop(at) == at

\* clearInterval(ref.current); ref.current = null
ClearInterval(at) == 0

\* variant of sendHeartbeat's test that ignores isJoinedRef
ShouldBeatAlways(joined) == TRUE

\* if (!user || !roomId || !isJoinedRef.current) return
ShouldBeat(joined) == joined

\* the hook is mounted: a new instance (isJoinedRef = useRef(false)); the heartbeat
\* effect's first sendHeartbeat returns at once, and both effects set their interval
MountHook(c) ==
  /\ ~mounted[c]
  /\ mounted' = [mounted EXCEPT ![c] = TRUE]
  /\ isJoined' = [isJoined EXCEPT ![c] = FALSE]
  /\ beatAt' = [beatAt EXCEPT ![c] = now + HeartbeatPeriod]
  /\ sweepAt' = [sweepAt EXCEPT ![c] = now + SweepPeriod]
  /\ UNCHANGED <<rooms, parts, txn, last, now, user_roles, roles, roomRole,
                 debounceVars, feedVars, sendVars, loadVars, pageVars, viewVars, owner>>

\* the hook is unmounted: the cleanups of both effects clear their interval; the
\* calls in flight go on, their results reach nobody
UnmountHook(c) ==
  /\ mounted[c]
  /\ mounted' = [mounted EXCEPT ![c] = FALSE]
  /\ beatAt' = [beatAt EXCEPT ![c] = ClearInterval(@)]
  /\ sweepAt' = [sweepAt EXCEPT ![c] = ClearInterval(@)]
  /\ UNCHANGED <<rooms, parts, txn, last, now, user_roles, roles, roomRole,
                 debounceVars, feedVars, sendVars, loadVars, pageVars, viewVars, isJoined, owner>>

\* sendHeartbeat() in slot t: supabase.rpc('room_heartbeat') when the test passes
SendHeartbeat(c, t) ==
  IF ShouldBeat(isJoined[c])
  THEN /\ Begin(t, "heartbeat", "r1", c, "d1", NoCode, "h_upd")
       /\ owner' = [owner EXCEPT ![t] = c]
  ELSE UNCHANGED <<txn, owner>>

\* the heartbeat effect runs again (its dependency user is a new object): the
\* cleanup clears the interval, then sendHeartbeat() and a new interval
RerunHeartbeatEffect(c, t) ==
  /\ mounted[c]
  /\ SendHeartbeat(c, t)
  /\ beatAt' = [beatAt EXCEPT ![c] = now + HeartbeatPeriod]
  /\ UNCHANGED <<rooms, parts, last, now, mounted, sweepAt, user_roles, roles, roomRole,
                 debounceVars, feedVars, sendVars, loadVars, pageVars, viewVars, isJoined>>

\* the heartbeat interval fires: setInterval(sendHeartbeat, 30000)
HeartbeatInterval(c, t) ==
  /\ beatAt[c] # 0
  /\ beatAt[c] = now
  /\ SendHeartbeat(c, t)
  /\ beatAt' = [beatAt EXCEPT ![c] = now + HeartbeatPeriod]
  /\ UNCHANGED <<rooms, parts, last, now, mounted, sweepAt, user_roles, roles, roomRole,
                 debounceVars, feedVars, sendVars, loadVars, pageVars, viewVars, isJoined>>

\* the cleanup interval fires: supabase.rpc('cleanup_inactive_participants')
CleanupInterval(c, t) ==
  /\ sweepAt[c] # 0
  /\ sweepAt[c] = now
  /\ Begin(t, "sweep", "r0", 0, "d1", NoCode, "c_mark")
  /\ owner' = [owner EXCEPT ![t] = c]
  /\ sweepAt' = [sweepAt EXCEPT ![c] = now + SweepPeriod]
  /\ UNCHANGED <<rooms, parts, last, now, mounted, user_roles, roles, roomRole,
                 debounceVars, feedVars, sendVars, loadVars, pageVars, viewVars, isJoined, beatAt>>

\* joinRoom(joinCode) of hook c: supabase.rpc('join_room', ...)
HookJoin(c, t, code) ==
  /\ mounted[c]
  /\ Begin(t, "join", "r1", c, "d1", code, "j_lock")
  /\ owner' = [owner EXCEPT ![t] = c]
  /\ UNCHANGED <<rooms, parts, last, now, mounted, sweepAt, user_roles, roles, roomRole,
                 debounceVars, feedVars, sendVars, loadVars, pageVars, viewVars, isJoined, beatAt>>

\* leaveRoom() of hook c: supabase.rpc('leave_room', ...)
HookLeave(c, t) ==
  /\ mounted[c]
  /\ Begin(t, "leave", "r1", c, "d1", NoCode, "l_check")
  /\ owner' = [owner EXCEPT ![t] = c]
  /\ UNCHANGED <<rooms, parts, last, now, mounted, sweepAt, user_roles, roles, roomRole,
                 debounceVars, feedVars, sendVars, loadVars, pageVars, viewVars, isJoined, beatAt>>

\* what the hook does with the data of its call: joinRoom sets isJoinedRef on
\* result.success, leaveRoom clears it whatever the result, sendHeartbeat and the
\* cleanup callback look at nothing
AfterData(joined, op, res) ==
  IF op = "join" /\ res.success THEN TRUE
  ELSE IF op = "leave" THEN FALSE
  ELSE joined

\* the call in slot t commits and its data reaches the hook that made it, if that
\* hook is still mounted
HookCommit(t) ==
  /\ CommitRows(t)
  /\ isJoined' = [c \in Clients |->
                    IF owner[t] = c /\ mounted[c]
                    THEN AfterData(isJoined[c], txn[t].op, txn[t].res)
                    ELSE isJoined[c]]
  /\ owner' = [owner EXCEPT ![t] = NoHook]
  /\ UNCHANGED <<last, now, mounted, sweepAt, user_roles, roles, roomRole,
                 debounceVars, feedVars, sendVars, loadVars, pageVars, viewVars, beatAt>>

\* the call in slot t was rolled back and its error (rpcError) reaches the hook:
\* joinRoom and leaveRoom return it, sendHeartbeat ignores it
HookError(t) ==
  /\ txn[t].pc = "failed"
  /\ txn' = [txn EXCEPT ![t] = IdleTxn]
  /\ owner' = [owner EXCEPT ![t] = NoHook]
  /\ UNCHANGED <<rooms, parts, last, now, mounted, sweepAt, user_roles, roles, roomRole,
                 debounceVars, feedVars, sendVars, loadVars, pageVars, viewVars, isJoined, beatAt>>

\* the request of the call in slot t does not reach the database: the rpc rejects
\* or returns an error, which the catch blocks and error branches swallow
RequestFails(t) ==
  /\ txn[t].pc \in {"j_lock", "l_check", "h_upd", "c_mark"}
  /\ txn[t].wrooms = EmptyFn /\ txn[t].wparts = EmptyFn
  /\ owner[t] # NoHook
  /\ txn' = [txn EXCEPT ![t] = IdleTxn]
  /\ owner' = [owner EXCEPT ![t] = NoHook]
  /\ UNCHANGED <<rooms, parts, last, now, mounted, sweepAt, user_roles, roles, roomRole,
                 debounceVars, feedVars, sendVars, loadVars, pageVars, viewVars, isJoined, beatAt>>

\* 30 seconds pass; the intervals that are due have fired.  The horizon is two
\* ticks past the liveness threshold, long enough for a silent member to be swept
HookTick ==
  /\ \A c \in Clients : beatAt[c] # 0 => beatAt[c] > now
  /\ \A c \in Clients : sweepAt[c] # 0 => sweepAt[c] > now
  /\ Tick(1, LivenessThreshold + 2)

\* useRef(false), no interval, no call
InitBeat ==
  /\ isJoined = [c \in Clients |-> FALSE]
  /\ beatAt = [c \in Clients |-> 0]
  /\ owner = [t \in Slots |-> NoHook]

-----------------------------------------------------------------------------
(* The Room page: attemptJoin *)

NoPage == "none"
ClosedPage == [roomId |-> NoPage, hasJoined |-> FALSE, joinError |-> NoError]

\* identity c opens /rooms/r: useState(false) for hasJoined, null for joinError
OpenRoom(c, r) ==
  /\ page[c].roomId = NoPage
  /\ page' = [page EXCEPT ![c] = [ClosedPage EXCEPT !.roomId = r]]
  /\ UNCHANGED <<ledgerVars, debounceVars, feedVars, sendVars, loadVars, beatVars, viewVars,
                 multiDeviceWarning>>

\* the page is left; a join in flight goes on and its result reaches nobody
ClosePage(c) ==
  /\ page[c].roomId # NoPage
  /\ page' = [page EXCEPT ![c] = ClosedPage]
  /\ owner' = [t \in Slots |-> IF owner[t] = c THEN NoHook ELSE owner[t]]
  /\ UNCHANGED <<ledgerVars, debounceVars, feedVars, sendVars, loadVars, isJoined, beatAt, viewVars,
                 multiDeviceWarning>>

\* attemptJoin, once the hook has loaded: for any user, with no test of a role,
\*   if (!user || !roomId || hasJoined || loading) return
\*   joinRoom(sessionStorage.getItem(`join_code_${roomId}`) || undefined)
\* stored is the session storage entry, NoCode when there is none
AttemptJoin(c, t, stored) ==
  /\ page[c].roomId # NoPage
  /\ ~page[c].hasJoined
  /\ Begin(t, "join", page[c].roomId, c, "d1", stored, "j_lock")
  /\ owner' = [owner EXCEPT ![t] = c]
  /\ UNCHANGED <<rooms, parts, last, now, mounted, sweepAt, user_roles, roles, roomRole,
                 debounceVars, feedVars, sendVars, loadVars, pageVars, viewVars, isJoined, beatAt>>

\* the page's part after joinRoom returns: setHasJoined(true) or setJoinError(...)
AfterJoin(pg, res) ==
  IF res.success THEN [pg EXCEPT !.hasJoined = TRUE]
  ELSE [pg EXCEPT !.joinError = res.error]

\* the join in slot t commits and its result reaches the hook and the page
PageCommit(t) ==
  /\ CommitRows(t)
  /\ isJoined' = [c \in Clients |->
                    IF owner[t] = c THEN AfterData(isJoined[c], txn[t].op, txn[t].res)
                    ELSE isJoined[c]]
  /\ page' = [c \in Clients |->
                IF owner[t] = c THEN AfterJoin(page[c], txn[t].res) ELSE page[c]]
  /\ owner' = [owner EXCEPT ![t] = NoHook]
  /\ UNCHANGED <<last, now, mounted, sweepAt, user_roles, roles, roomRole,
                 debounceVars, feedVars, sendVars, loadVars, beatAt, viewVars, multiDeviceWarning>>

\* the page's effect on [user, participants]:
\*   if (user && participants.length > 0) {
\*     mine = participants.filter(p => p.user_id === user.id)
\*     setMultiDeviceWarning(mine.length > 1 || (mine.length === 1 && mine[0].device_id !== <stored id>)) }
\* prev is the flag before, which an empty list leaves as it is
MultiDevice(prev, list, u, dev) ==
  LET mine == {q \in list : q.user_id = u} IN
  IF list # {}
  THEN Cardinality(mine) > 1 \/ (Cardinality(mine) = 1 /\ \A q \in mine : q.device_id # dev)
  ELSE prev

\* localStorage 'hackmate_device_id' in the browser of the client
StoredDevice == "d1"

InitPage ==
  /\ page = [c \in Clients |-> ClosedPage]
  /\ multiDeviceWarning = FALSE

-----------------------------------------------------------------------------
(* The hook's view of the room: fetchParticipants, fetchRoom and what calls them *)

\* Time is left out of this part: a timer or interval fires at any moment, and a
\* request is answered and its response handled at any later moments, so that
\* responses arrive in any order.  reqs[k].sent counts the requests of kind k not
\* yet answered, reqs[k].answered holds the rows of the responses on their way.
Fetches == {"room", "participants"}

NoReqs == [k \in Fetches |-> [sent |-> 0, answered |-> {}]]

Outstanding(k) == reqs[k].sent + Cardinality(reqs[k].answered)
CanIssue(ks) == \A k \in ks : Outstanding(k) < MaxReqs
Issue(ks) == [k \in Fetches |-> IF k \in ks THEN [reqs[k] EXCEPT !.sent = @ + 1] ELSE reqs[k]]

\* .from('room_participants').select(...).eq('room_id', roomId).eq('is_active', true):
\* the rows it returns (n tells apart the rows of one identity, should it have several)
ActiveParticipants(p, r) ==
  UNION {{[user_id |-> u, device_id |-> p[<<r, u>>][i].device_id, n |-> i] :
            i \in ActiveRows(p[<<r, u>>])} : u \in Users}

\* what the query of a fetch reads from the committed ledger
Snapshot(k) == IF k = "room" THEN rooms["r1"] ELSE ActiveParticipants(parts, "r1")

\* variant of the interval callback that refetches nothing after the sweep
SweepRefetchNone == {}

\* the cleanup interval's callback after the rpc: fetchParticipants(); fetchRoom()
SweepRefetch == {"participants", "room"}

\* the callbacks handed to debouncedFetchRoom and debouncedFetchParticipants
DebouncedFetches(d) == IF d = "room" THEN {"room"} ELSE {"participants", "room"}

\* the hook mounts: loadData calls fetchRoom() and fetchParticipants()
MountView(c) ==
  /\ ~mounted[c]
  /\ mounted' = [mounted EXCEPT ![c] = TRUE]
  /\ reqs' = Issue({"room", "participants"})
  /\ UNCHANGED <<rooms, parts, txn, last, now, sweepAt, user_roles, roles, roomRole,
                 debounceVars, feedVars, sendVars, loadVars, beatVars, pageVars,
                 participants, refetch, budget>>

\* another identity calls join_room or leave_room on r1; budget bounds the number
\* of these calls, after which the mutations of the room have stopped
Mutate(t, op, u) ==
  /\ budget > 0
  /\ budget' = budget - 1
  /\ Begin(t, op, "r1", u, "d1", Code1, IF op = "join" THEN "j_lock" ELSE "l_check")
  /\ UNCHANGED <<rooms, parts, last, now, mounted, sweepAt, user_roles, roles, roomRole,
                 debounceVars, feedVars, sendVars, loadVars, beatVars, pageVars,
                 participants, refetch, reqs>>

\* the cleanup interval of hook c fires: supabase.rpc('cleanup_inactive_participants')
ViewSweep(c, t) ==
  /\ mounted[c]
  /\ \A t2 \in Slots : owner[t2] # c
  /\ Begin(t, "sweep", "r0", 0, "d1", NoCode, "c_mark")
  /\ owner' = [owner EXCEPT ![t] = c]
  /\ UNCHANGED <<rooms, parts, last, now, mounted, sweepAt, user_roles, roles, roomRole,
                 debounceVars, feedVars, sendVars, loadVars, pageVars, isJoined, beatAt, viewVars>>

\* the postgres_changes events on r1 that the commit of the call in slot t sends:
\* on rooms for an UPDATE of the room row, on room_participants for an INSERT or
\* UPDATE of a row of the room (the sweep's UPDATE rooms writes every room row)
Changes(t) ==
  {d \in Debouncers :
     IF d = "room"
     THEN txn[t].op = "sweep" \/ txn[t].res.success
     ELSE \E k \in DOMAIN txn[t].wparts : k[1] = "r1"}

\* an event on the channel of debouncer d: its pending timer, if any, is cleared
\* and a new one set, so that one timer is pending for it; an unmounted hook has
\* no channel
Heard(d, t) == (\E c \in Clients : mounted[c]) /\ d \in Changes(t)

\* the call in slot t commits and its events reach the channels; the rpc of a
\* sweep made by the hook returns and the callback goes on with its two fetches
ViewCommit(t) ==
  /\ CommitRows(t)
  /\ refetch' = [d \in Debouncers |-> refetch[d] \/ Heard(d, t)]
  /\ IF owner[t] # NoHook
     THEN CanIssue(SweepRefetch) /\ reqs' = Issue(SweepRefetch)
     ELSE reqs' = reqs
  /\ owner' = [owner EXCEPT ![t] = NoHook]
  /\ UNCHANGED <<last, now, mounted, sweepAt, user_roles, roles, roomRole,
                 debounceVars, feedVars, sendVars, loadVars, pageVars, isJoined, beatAt,
                 participants, budget>>

\* the call in slot t was rolled back; supabase.rpc resolves with the error (it
\* does not throw), so the callback of a sweep goes on with its two fetches
ViewError(t) ==
  /\ txn[t].pc = "failed"
  /\ txn' = [txn EXCEPT ![t] = IdleTxn]
  /\ IF owner[t] # NoHook
     THEN CanIssue(SweepRefetch) /\ reqs' = Issue(SweepRefetch)
     ELSE reqs' = reqs
  /\ owner' = [owner EXCEPT ![t] = NoHook]
  /\ UNCHANGED <<rooms, parts, last, now, mounted, sweepAt, user_roles, roles, roomRole,
                 debounceVars, feedVars, sendVars, loadVars, pageVars, isJoined, beatAt,
                 participants, refetch, budget>>

\* the debouncer's timer fires and its callback sends the fetches
RefetchFires(d) ==
  /\ refetch[d]
  /\ CanIssue(DebouncedFetches(d))
  /\ refetch' = [refetch EXCEPT ![d] = FALSE]
  /\ reqs' = Issue(DebouncedFetches(d))
  /\ UNCHANGED <<ledgerVars, debounceVars, feedVars, sendVars, loadVars, beatVars, pageVars,
                 participants, budget>>

\* the query of a fetch of kind k runs on the committed rows
ServeFetch(k) ==
  /\ reqs[k].sent > 0
  /\ reqs' = [reqs EXCEPT ![k].sent = @ - 1, ![k].answered = @ \cup {Snapshot(k)}]
  /\ UNCHANGED <<ledgerVars, debounceVars, feedVars, sendVars, loadVars, beatVars, pageVars,
                 participants, refetch, budget>>

\* a response reaches the hook: setRoom(data), or if (data) setParticipants(data),
\* after which the page's effect on the participant list runs
DeliverFetch(k, data) ==
  /\ data \in reqs[k].answered
  /\ reqs' = [reqs EXCEPT ![k].answered = @ \ {data}]
  /\ IF k = "room"
     THEN /\ hookRoom' = data
          /\ UNCHANGED <<participants, multiDeviceWarning>>
     ELSE /\ participants' = data
          /\ hookRoom' = hookRoom
          /\ multiDeviceWarning' =
               MultiDevice(multiDeviceWarning, data, CHOOSE c \in Clients : mounted[c], StoredDevice)
  /\ UNCHANGED <<ledgerVars, debounceVars, feedVars, sendVars, beatVars, page,
                 error, retryCount, fetchRoom, epoch, refetch, budget>>

\* useState<Participant[]>([]); no event, timer or request under way
InitView ==
  /\ participants = {}
  /\ refetch = [d \in Debouncers |-> FALSE]
  /\ reqs = NoReqs
  /\ budget = MaxMutations

-----------------------------------------------------------------------------
(* Specifications *)

NoParts == [k \in Keys |-> <<>>]

\* r1 created by user 1 and r2 by user 2, nobody joined yet; r0 is no room
InitRooms ==
  [r \in RoomIds |-> CASE r = "r1" -> NewRoom(1, Code1)
                       [] r = "r2" -> NewRoom(2, Code2)
                       [] OTHER -> NoRoom]

InitCalls ==
  /\ txn = [t \in Slots |-> IdleTxn]
  /\ last = NoCall
  /\ now = 0
  /\ mounted = [c \in Clients |-> FALSE]
  /\ sweepAt = [c \in Clients |-> 0]

\* useState<AppRole[]>([]) and useState<RoomRole | null>(null)
InitHooks ==
  /\ roles = [c \in Clients |-> {}]
  /\ roomRole = [c \in Clients |-> NoRole]
  /\ InitDebounce
  /\ InitFeed
  /\ InitSend
  /\ InitLoad
  /\ InitBeat
  /\ InitPage
  /\ InitView

InitRest ==
  /\ InitCalls
  /\ user_roles = {}
  /\ InitHooks

Init ==
  /\ rooms = InitRooms
  /\ parts = NoParts
  /\ InitRest

\* the identities that issue calls in the concurrent specification
Actors == {1, 2}

Next ==
  \/ \E t \in Slots, u \in Actors : BeginJoin(t, "r1", u, "d1", Code1)
  \/ \E t \in Slots, u \in Actors : BeginLeave(t, "r1", u)
  \/ \E t \in Slots, u \in Actors : BeginHeartbeat(t, "r1", u)
  \/ \E t \in Slots : BeginSweep(t)
  \/ \E t \in Slots : JoinStep(t)
  \/ \E t \in Slots : LeaveStep(t)
  \/ \E t \in Slots : HeartbeatUpdate(t)
  \/ \E t \in Slots : SweepStep(t)
  \/ \E t \in Slots : Commit(t) /\ UNCHANGED last
  \/ \E t \in Slots : DeadlockAbort(t)
  \/ \E t \in Slots : ReturnError(t)
  \/ Tick(LivenessThreshold + 1, LivenessThreshold + 1)

Spec == Init /\ [][Next]_vars

\* Ledgers that calls run one after another leave behind: in r1 the first k of
\* the other identities are active members, and each actor has no row, an active
\* row or an inactive one; the occupancy is the number of active rows.
Residents == Users \ Actors
SeedRow(active) ==
  [is_active |-> active, last_seen |-> 0, device_id |-> "d1", room_role |-> "member"]
SeedParts(k, a) ==
  [key \in Keys |->
     IF key[1] # "r1" THEN <<>>
     ELSE IF key[2] \in Actors
     THEN (IF a[key[2]] = "absent" THEN <<>> ELSE <<SeedRow(a[key[2]] = "active")>>)
     ELSE IF Cardinality({u \in Residents : u <= key[2]}) <= k THEN <<SeedRow(TRUE)>>
     ELSE <<>>]

SeededWith(code) ==
  /\ \E k \in 0..Cardinality(Residents), a \in [Actors -> {"absent", "active", "inactive"}] :
       /\ parts = SeedParts(k, a)
       /\ ActiveCount(parts, "r1") <= MaxParticipants
  /\ rooms = [InitRooms EXCEPT !["r1"].current_user_count = ActiveCount(parts, "r1"),
                               !["r1"].join_code = code]
  /\ InitRest

InitSeeded == SeededWith(Code1)

\* ... and r1 has a regenerated code or still the empty text of its insert
InitSeq == \E code \in {Code1, EmptyCode} : SeededWith(code)

\* concurrent joins only, by new and by rejoining identities, from two devices
NextJoin ==
  \/ \E t \in Slots, u \in Actors, d \in Devices : BeginJoin(t, "r1", u, d, Code1)
  \/ \E t \in Slots : JoinStep(t)
  \/ \E t \in Slots : Commit(t) /\ last' = CallOf(t)
  \/ \E t \in Slots : ReturnError(t)

SpecJoin == InitSeeded /\ [][NextJoin]_vars

\* the calls of join_room, leave_room and regenerate_join_code run one after
\* another: a call starts only when no other is in flight
NextSeq ==
  \/ \E t \in Slots, u \in Users, c \in CodePool \cup {NoCode, EmptyCode} :
       NoneInFlight /\ BeginJoin(t, "r1", u, "d1", c)
  \/ \E t \in Slots, u \in Actors : NoneInFlight /\ BeginLeave(t, "r1", u)
  \/ \E t \in Slots, r \in {"r0", "r1"}, u \in Actors : NoneInFlight /\ BeginRegenerate(t, r, u)
  \/ \E t \in Slots : JoinStep(t)
  \/ \E t \in Slots : LeaveStep(t)
  \/ \E t \in Slots : RegenerateStep(t)
  \/ \E t \in Slots : Commit(t) /\ UNCHANGED last
  \/ \E t \in Slots : ReturnError(t)

SpecSeq == InitSeq /\ [][NextSeq]_vars

\* leave_room and join_room by the actors, one call after another, with the last
\* completed call on record
NextRejoin ==
  \/ \E t \in Slots, u \in Actors, c \in {Code1, NoCode} :
       NoneInFlight /\ BeginJoin(t, "r1", u, "d1", c)
  \/ \E t \in Slots, u \in Actors : NoneInFlight /\ BeginLeave(t, "r1", u)
  \/ \E t \in Slots : JoinStep(t)
  \/ \E t \in Slots : LeaveStep(t)
  \/ \E t \in Slots : Commit(t) /\ last' = CallOf(t)
  \/ \E t \in Slots : ReturnError(t)

SpecRejoin == InitSeeded /\ [][NextRejoin]_vars

\* regenerate_join_code by the creators and by others, one call after another, with
\* the last completed call (and the code it returned) on record
NextRegen ==
  \/ \E t \in Slots, r \in RoomIds, u \in Actors : NoneInFlight /\ BeginRegenerate(t, r, u)
  \/ \E t \in Slots : RegenerateStep(t)
  \/ \E t \in Slots : Commit(t) /\ last' = CallOf(t)
  \/ \E t \in Slots : ReturnError(t)

SpecRegen == InitSeq /\ [][NextRegen]_vars

\* The role hooks of the clients and the statements on user_roles by the
\* identities, from any table of global roles; each client's identity has no row
\* in r1, an inactive one or an active one, with any room_role the column admits.
RoleSeedParts(st, rr) ==
  [key \in Keys |->
     IF key[1] = "r1" /\ key[2] \in Clients /\ st[key[2]] # "absent"
     THEN <<[SeedRow(st[key[2]] = "active") EXCEPT !.room_role = rr[key[2]]]>>
     ELSE <<>>]

InitRoles ==
  /\ \E st \in [Clients -> {"absent", "active", "inactive"}], rr \in [Clients -> RoomRoles] :
       parts = RoleSeedParts(st, rr)
  /\ rooms = [InitRooms EXCEPT !["r1"].current_user_count = ActiveCount(parts, "r1")]
  /\ InitCalls
  /\ user_roles \in SUBSET RoleRows
  /\ InitHooks

NextRoles ==
  \/ \E c \in Clients : FetchRoles(c)
  \/ \E c \in Clients : FetchRoomRole(c)
  \/ \E u \in RoleUsers, row \in RoleRows : InsertRole(u, row)
  \/ \E u \in RoleUsers, old \in RoleRows, new \in RoleRows : UpdateRole(u, old, new)
  \/ \E u \in RoleUsers, old \in RoleRows : DeleteRole(u, old)

SpecRoles == InitRoles /\ [][NextRoles]_vars

\* The hook's clients: client c is the browser tab of identity c. A tab mounts the
\* hook, joins through it, runs the 90 s sweep interval while mounted, and may go
\* away at any time; no heartbeat is sent. No client's identity is active at first.
InitPresence ==
  /\ InitSeeded
  /\ \A c \in Clients : ActiveRows(parts[<<"r1", c>>]) = {}

NextPresence ==
  \/ \E c \in Clients : Mount(c)
  \/ \E c \in Clients : Unmount(c)
  \/ \E c \in Clients, t \in Slots : mounted[c] /\ BeginJoin(t, "r1", c, "d1", Code1)
  \/ \E c \in Clients, t \in Slots : SweepTimer(c, t)
  \/ \E t \in Slots : JoinStep(t)
  \/ \E t \in Slots : SweepStep(t)
  \/ \E t \in Slots : Commit(t) /\ UNCHANGED last
  \/ \E t \in Slots : DeadlockAbort(t)
  \/ \E t \in Slots : ReturnError(t)
  \/ Tick(1, MaxTime)

SpecPresence == InitPresence /\ [][NextPresence]_vars

\* Ledgers with all three kinds of room: r0 is no room, r1 is seeded as above,
\* and r2 is archived (status IN ('active', 'archived')) with its creator's row
\* from createRoom still in it.
InitOrder ==
  /\ \E k \in 0..Cardinality(Residents), a \in [Actors -> {"absent", "active", "inactive"}] :
       /\ parts = [SeedParts(k, a) EXCEPT ![<<"r2", 2>>] = <<SeedRow(TRUE)>>]
       /\ ActiveCount(parts, "r1") <= MaxParticipants
  /\ rooms = [InitRooms EXCEPT !["r1"].current_user_count = ActiveCount(parts, "r1"),
                               !["r2"].current_user_count = 1,
                               !["r2"].status = "archived"]
  /\ InitRest

\* join_room on every room id by every identity, and leave_room by the actors,
\* one call after another
NextOrder ==
  \/ \E t \in Slots, r \in RoomIds, u \in Users, c \in {Code1, Code2, NoCode} :
       NoneInFlight /\ BeginJoin(t, r, u, "d1", c)
  \/ \E t \in Slots, u \in Actors : NoneInFlight /\ BeginLeave(t, "r1", u)
  \/ \E t \in Slots : JoinStep(t)
  \/ \E t \in Slots : LeaveStep(t)
  \/ \E t \in Slots : Commit(t) /\ UNCHANGED last
  \/ \E t \in Slots : ReturnError(t)

SpecOrder == InitOrder /\ [][NextOrder]_vars

\* notifications on the two debounced channels, timers and the clock
NextDebounce ==
  \/ \E d \in Debouncers : Debounced(d)
  \/ \E x \in timers : TimerFires(x)
  \/ ClockTick

SpecDebounce == Init /\ [][NextDebounce]_vars

\* inserts into the two tables, the fetches of the hook and the notifications
NextFeed ==
  \/ InsertMessage
  \/ InsertSuggestion
  \/ FetchMessages
  \/ \E ok \in BOOLEAN : MessagesFetched(ok)
  \/ FetchSuggestions
  \/ \E ok \in BOOLEAN : SuggestionsFetched(ok)
  \/ \E id \in 1..MaxMessages : OnMessageInsert(id)
  \/ \E id \in 1..MaxSuggestions : OnSuggestionInsert(id)

SpecFeed == Init /\ [][NextFeed]_vars

\* calls of fetchRoom, overlapping, with every outcome of each query; a query
\* that was sent is answered and a backoff ends
NextLoad ==
  \/ \E k \in FetchCalls, initial \in BOOLEAN : StartFetchRoom(k, initial)
  \/ \E k \in FetchCalls : FetchRoomError(k)
  \/ \E k \in FetchCalls : FetchRoomRetry(k)
  \/ \E k \in FetchCalls : FetchRoomData(k)
  \/ \E k \in FetchCalls : FetchRoomThrows(k)

FetchProgress(k) == FetchRoomError(k) \/ FetchRoomRetry(k) \/ FetchRoomThrows(k)

SpecLoad ==
  /\ Init
  /\ [][NextLoad]_vars
  /\ \A k \in FetchCalls : WF_vars(FetchProgress(k))

\* The hooks mount and unmount, join and leave, and run their two intervals;
\* requests can fail, and other clients sweep at any time.
NextHook ==
  \/ \E c \in Clients : MountHook(c)
  \/ \E c \in Clients : UnmountHook(c)
  \/ \E c \in Clients, t \in Slots : RerunHeartbeatEffect(c, t)
  \/ \E c \in Clients, t \in Slots : HeartbeatInterval(c, t)
  \/ \E c \in Clients, t \in Slots : CleanupInterval(c, t)
  \/ \E c \in Clients, t \in Slots : HookJoin(c, t, NoCode)
  \/ \E c \in Clients, t \in Slots : HookLeave(c, t)
  \/ \E t \in Slots : BeginSweep(t)
  \/ \E t \in Slots : JoinStep(t)
  \/ \E t \in Slots : LeaveStep(t)
  \/ \E t \in Slots : HeartbeatUpdate(t)
  \/ \E t \in Slots : SweepStep(t)
  \/ \E t \in Slots : HookCommit(t)
  \/ \E t \in Slots : DeadlockAbort(t)
  \/ \E t \in Slots : HookError(t)
  \/ \E t \in Slots : RequestFails(t)
  \/ HookTick

SpecHook == Init /\ [][NextHook]_vars

\* ... and the same with every request delivered
NextAlive ==
  \/ \E c \in Clients : MountHook(c)
  \/ \E c \in Clients : UnmountHook(c)
  \/ \E c \in Clients, t \in Slots : RerunHeartbeatEffect(c, t)
  \/ \E c \in Clients, t \in Slots : HeartbeatInterval(c, t)
  \/ \E c \in Clients, t \in Slots : CleanupInterval(c, t)
  \/ \E c \in Clients, t \in Slots : HookJoin(c, t, NoCode)
  \/ \E c \in Clients, t \in Slots : HookLeave(c, t)
  \/ \E t \in Slots : BeginSweep(t)
  \/ \E t \in Slots : JoinStep(t)
  \/ \E t \in Slots : LeaveStep(t)
  \/ \E t \in Slots : HeartbeatUpdate(t)
  \/ \E t \in Slots : SweepStep(t)
  \/ \E t \in Slots : HookCommit(t)
  \/ \E t \in Slots : DeadlockAbort(t)
  \/ \E t \in Slots : HookError(t)
  \/ HookTick

SpecAlive == Init /\ [][NextAlive]_vars

\* concurrent leave_room calls only, with the last completed call on record
NextLeave ==
  \/ \E t \in Slots, u \in Actors : BeginLeave(t, "r1", u)
  \/ \E t \in Slots : LeaveStep(t)
  \/ \E t \in Slots : Commit(t) /\ last' = CallOf(t)

SpecLeave == InitSeeded /\ [][NextLeave]_vars

\* Rooms r1 and r2 as created, with no participant row (createRoom's own join
\* failed), and any table of global roles; the identities open and leave the Room
\* page of either room, with or without a stored join code.
InitObserver ==
  /\ rooms = InitRooms
  /\ parts = NoParts
  /\ InitCalls
  /\ user_roles \in SUBSET {row \in RoleRows : row[1] \in Clients}
  /\ InitHooks

NextObserver ==
  \/ \E c \in Clients, r \in {"r1", "r2"} : OpenRoom(c, r)
  \/ \E c \in Clients : ClosePage(c)
  \/ \E c \in Clients, t \in Slots, stored \in {NoCode, Code1, Code2} : AttemptJoin(c, t, stored)
  \/ \E t \in Slots : JoinStep(t)
  \/ \E t \in Slots : PageCommit(t)

SpecObserver == InitObserver /\ [][NextObserver]_vars

\* The hook of a client on r1, in which identity 1 has no row, an inactive row or
\* an active one last seen at time 0 and stale by now, past the threshold; identity 1
\* joins and leaves a bounded number of times in the first slot, and the hook's
\* cleanup interval goes on firing, its sweep in the last slot.
InitWatch ==
  /\ \E a \in [Actors -> {"absent", "active", "inactive"}] :
       a[2] = "absent" /\ parts = SeedParts(0, a)
  /\ rooms = [InitRooms EXCEPT !["r1"].current_user_count = ActiveCount(parts, "r1")]
  /\ txn = [t \in Slots |-> IdleTxn]
  /\ last = NoCall
  /\ now = LivenessThreshold + 1
  /\ mounted = [c \in Clients |-> FALSE]
  /\ sweepAt = [c \in Clients |-> 0]
  /\ user_roles = {}
  /\ InitHooks

NextView ==
  \/ \E c \in Clients : MountView(c)
  \/ \E op \in {"join", "leave"} : Mutate(1, op, 1)
  \/ \E c \in Clients : ViewSweep(c, MaxTxn)
  \/ \E t \in Slots : JoinStep(t)
  \/ \E t \in Slots : LeaveStep(t)
  \/ \E t \in Slots : SweepStep(t)
  \/ \E t \in Slots : DeadlockAbort(t)
  \/ \E t \in Slots : ViewCommit(t)
  \/ \E t \in Slots : ViewError(t)
  \/ \E d \in Debouncers : RefetchFires(d)
  \/ \E k \in Fetches : ServeFetch(k)
  \/ \E k \in Fetches : \E data \in reqs[k].answered : DeliverFetch(k, data)

\* every call runs on, and the hook mounts, its interval fires, and its
\* notifications, timers and fetches are served
CallRuns(t) ==
  JoinStep(t) \/ LeaveStep(t) \/ SweepStep(t) \/ DeadlockAbort(t) \/ ViewCommit(t) \/ ViewError(t)

ViewServed ==
  /\ \A t \in Slots : WF_vars(CallRuns(t))
  /\ WF_vars(\E c \in Clients : MountView(c))
  /\ WF_vars(\E c \in Clients : ViewSweep(c, MaxTxn))
  /\ \A d \in Debouncers : WF_vars(RefetchFires(d))
  /\ \A k \in Fetches : WF_vars(ServeFetch(k))
  /\ \A k \in Fetches : WF_vars(\E data \in reqs[k].answered : DeliverFetch(k, data))

SpecView == InitWatch /\ [][NextView]_vars /\ ViewServed

\* No room exists yet; the actors create rooms, join them again and regenerate
\* their codes, one call after another.
InitCreate ==
  /\ rooms = [r \in RoomIds |-> NoRoom]
  /\ parts = NoParts
  /\ InitRest

NextCreate ==
  \/ \E t \in Slots, r \in RoomIds, u \in Actors, draws \in DrawSeqs :
       NoneInFlight /\ CreateRoom(t, r, u, draws)
  \/ \E t \in Slots, r \in RoomIds, u \in Actors : NoneInFlight /\ BeginJoin(t, r, u, "d1", NoCode)
  \/ \E t \in Slots, r \in RoomIds, u \in Actors : NoneInFlight /\ BeginRegenerate(t, r, u)
  \/ \E t \in Slots : JoinStep(t)
  \/ \E t \in Slots : RegenerateStep(t)
  \/ \E t \in Slots : Commit(t) /\ UNCHANGED last
  \/ \E t \in Slots : ReturnError(t)

SpecCreate == InitCreate /\ [][NextCreate]_vars

\* concurrent joins, leaves and sweeps on a seeded room, up to a full one, with
\* the seeded members going stale when the time passes
NextCount ==
  \/ \E t \in Slots, u \in Actors : BeginJoin(t, "r1", u, "d1", Code1)
  \/ \E t \in Slots, u \in Actors : BeginLeave(t, "r1", u)
  \/ \E t \in Slots : BeginSweep(t)
  \/ \E t \in Slots : JoinStep(t)
  \/ \E t \in Slots : LeaveStep(t)
  \/ \E t \in Slots : SweepStep(t)
  \/ \E t \in Slots : Commit(t) /\ UNCHANGED last
  \/ \E t \in Slots : DeadlockAbort(t)
  \/ \E t \in Slots : ReturnError(t)
  \/ Tick(LivenessThreshold + 1, LivenessThreshold + 1)

SpecCount == InitSeeded /\ [][NextCount]_vars

\* The client is identity 1 in the browser with the stored device id; identity 1
\* joins and leaves r1 from this and from another device, one call after another
\* in the first slot, and the hook refetches after each event.
NextDevice ==
  \/ \E c \in Clients : MountView(c)
  \/ \E d \in Devices : NoneInFlight /\ BeginJoin(1, "r1", 1, d, Code1)
  \/ NoneInFlight /\ BeginLeave(1, "r1", 1)
  \/ \E t \in Slots : JoinStep(t)
  \/ \E t \in Slots : LeaveStep(t)
  \/ \E t \in Slots : ViewCommit(t)
  \/ \E d \in Debouncers : RefetchFires(d)
  \/ \E k \in Fetches : ServeFetch(k)
  \/ \E k \in Fetches : \E data \in reqs[k].answered : DeliverFetch(k, data)

SpecDevice == Init /\ [][NextDevice]_vars

-----------------------------------------------------------------------------
(* The claims *)

\* C2: in every reachable state a room's current_user_count equals the number of
\* its room_participants rows with is_active = true (the committed rows, under any
\* interleaving of the statements of join, leave, heartbeat and sweep).
C2_OccupancyEqualsActive ==
  \A r \in RoomIds : rooms[r].exists => rooms[r].current_user_count = ActiveCount(parts, r)

C5_OneRowPerKey ==
  /\ \A k \in Keys : Len(parts[k]) <= 1
  /\ \A t \in Slots :
       /\ \A k \in Keys : Len(PartsOf(t)[k]) <= 1
       /\ (txn[t].pc = "failed" /\ txn[t].op = "join") => txn[t].res.error # "unique_violation"
       /\ (txn[t].pc = "commit" /\ txn[t].op = "join" /\ txn[t].res.success) =>
            LET k == <<txn[t].room, txn[t].user>> IN
            /\ Len(PartsOf(t)[k]) = 1
            /\ txn[t].res.already_member <=> (Len(parts[k]) = 1)
            /\ (last.op = "join" /\ last.res.success /\ last.room = k[1] /\ last.user = k[2])
                 => txn[t].res.already_member

\* the identity's first join was committed from one device, and its join from the
\* other device, which waited for the room row meanwhile, has found the row
C5_Witness ==
  \E t \in Slots :
    /\ txn[t].pc = "commit" /\ txn[t].op = "join" /\ txn[t].res.already_member
    /\ last.op = "join" /\ last.res.success /\ ~last.res.already_member
    /\ last.room = txn[t].room /\ last.user = txn[t].user /\ last.device # txn[t].device

\* the call in slot t ends in this step: it commits and returns its result, or its
\* rolled-back error reaches the caller
Completes(t, op) ==
  /\ txn[t].op = op
  /\ txn[t].pc \in {"commit", "failed"}
  /\ txn'[t].pc = "idle"

\* C3: when an identity that is active in an active room calls join again, the call
\* returns success with already_member = true, the identity stays active, no row is
\* added, and the room's occupancy is the same as before the call.
C3_JoinIdempotent ==
  [][\A t \in Slots :
       LET r == txn[t].room
           k == <<txn[t].room, txn[t].user>>
       IN (/\ Completes(t, "join")
           /\ rooms[r].exists /\ rooms[r].status = "active"
           /\ \E i \in 1..Len(parts[k]) : parts[k][i].is_active)
          => /\ txn[t].res = Ok(TRUE)
             /\ Len(parts'[k]) = Len(parts[k])
             /\ \A i \in 1..Len(parts'[k]) : parts'[k][i].is_active
             /\ rooms'[r].current_user_count = rooms[r].current_user_count]_vars

\* an active member's join is about to return already_member
C3_Witness ==
  \E t \in Slots :
    /\ txn[t].op = "join" /\ txn[t].pc = "commit" /\ txn[t].res = Ok(TRUE)
    /\ Len(parts[<<txn[t].room, txn[t].user>>]) = 1
    /\ parts[<<txn[t].room, txn[t].user>>][1].is_active

\* C4: a leave by an identity that is active in an active room succeeds and leaves
\* it inactive; the join by the same identity that follows it succeeds, ends with
\* the identity active again, the occupancy equal to its value before the leave,
\* and exactly one row for that (room, identity).
C4_LeaveThenJoin ==
  [][\A t \in Slots :
       LET r == txn[t].room
           k == <<txn[t].room, txn[t].user>>
       IN /\ (/\ Completes(t, "leave")
              /\ \E i \in 1..Len(parts[k]) : parts[k][i].is_active)
             => /\ txn[t].res.success
                /\ \A i \in 1..Len(parts'[k]) : ~parts'[k][i].is_active
          /\ (/\ Completes(t, "join")
              /\ last.op = "leave" /\ last.res.success /\ last.room = r /\ last.user = txn[t].user)
             => /\ txn[t].res.success
                /\ Len(parts'[k]) = 1
                /\ parts'[k][1].is_active
                /\ rooms'[r].current_user_count = last.occ]_vars

\* the join that follows a successful leave from a full room is about to commit
C4_Witness ==
  \E t \in Slots :
    /\ txn[t].op = "join" /\ txn[t].pc = "commit" /\ txn[t].res.success
    /\ last.op = "leave" /\ last.res.success
    /\ last.room = txn[t].room /\ last.user = txn[t].user
    /\ last.occ = MaxParticipants

RoomFullError == Fail("Room full (5/5 members). Try another room or wait.")

\* the caller is the room's creator, the room is public, or the code is the room's
HasEntry(room, u, c) == ~room.is_private \/ room.created_by = u \/ (c # NoCode /\ c = room.join_code)

C10_RegenerateGuards ==
  [][\A t \in Slots :
       LET room == rooms[txn[t].room] IN
       Completes(t, "regenerate")
       => /\ ~room.exists => (txn[t].res = Fail("Room not found") /\ rooms' = rooms)
          /\ (room.exists /\ room.created_by # txn[t].user)
             => /\ txn[t].res = Fail("Only the host can regenerate the join code")
                /\ rooms'[txn[t].room].join_code = room.join_code
                /\ rooms' = rooms]_vars

\* a caller who is not the creator of the room is about to be refused
C10_Witness ==
  \E t \in Slots :
    /\ txn[t].op = "regenerate" /\ txn[t].pc = "commit"
    /\ rooms[txn[t].room].exists
    /\ rooms[txn[t].room].created_by # txn[t].user
    /\ txn[t].res = Fail("Only the host can regenerate the join code")

\* C8: when a sweep pass (cleanup_inactive_participants) completes, every
\* room_participants row whose last_seen is older than the liveness threshold is
\* inactive, and every room's current_user_count equals its number of active rows
\* at that instant.
C8_AfterSweep ==
  [][\A t \in Slots :
       (Completes(t, "sweep") /\ txn[t].pc = "commit")
       => /\ \A k \in Keys : \A i \in 1..Len(parts'[k]) :
               parts'[k][i].last_seen < now' - LivenessThreshold => ~parts'[k][i].is_active
          /\ \A r \in RoomIds :
               rooms'[r].exists => rooms'[r].current_user_count = ActiveCount(parts', r)]_vars

\* C9: an identity that joined through a client and has sent no heartbeat and no
\* leave since is inactive, and not counted in the room's occupancy, once more than
\* the liveness threshold plus one sweep period has passed since its last_seen,
\* whether or not a client is still there to run the sweep.
C9_SilentMemberDemoted ==
  \A c \in Clients :
    LET rows == parts[<<"r1", c>>] IN
    \A i \in 1..Len(rows) :
      now - rows[i].last_seen > LivenessThreshold + SweepPeriod
      => /\ ~rows[i].is_active
         /\ rooms["r1"].current_user_count = ActiveCount(parts, "r1")

\* C11: a regenerate_join_code call by the room's creator succeeds, returns a code
\* of length 6 over the code alphabet, and leaves the room's join_code equal to the
\* returned code; the code returned by the second of two successive calls by the
\* creator differs from the code returned by the first.
C11_TwoDistinctCodes ==
  [][\A t \in Slots :
       LET r == txn[t].room
           c == txn[t].code
       IN (/\ Completes(t, "regenerate")
           /\ rooms[r].exists /\ rooms[r].created_by = txn[t].user)
          => /\ txn[t].res.success
             /\ Len(c) = CodeLength
             /\ \A i \in 1..Len(c) : \E j \in 1..Len(Chars) : c[i] = Chars[j]
             /\ rooms'[r].join_code = c
             /\ (/\ last.op = "regenerate" /\ last.res.success
                 /\ last.room = r /\ last.user = txn[t].user)
                => c # last.code]_vars

\* C12: a leave for a (room, identity) that has no active row (no row, or only an
\* inactive one) fails with 'User not in room' and changes no room_participants
\* row and no room row (occupancy and updated_at included).
C12_LeaveNotAMember ==
  [][\A t \in Slots :
       LET k == <<txn[t].room, txn[t].user>> IN
       (/\ Completes(t, "leave")
        /\ \A i \in 1..Len(parts[k]) : ~parts[k][i].is_active)
       => /\ txn[t].res = Fail("User not in room")
          /\ parts' = parts
          /\ rooms' = rooms]_vars

\* an identity whose row is inactive is about to be told it is not in the room
C12_Witness ==
  \E t \in Slots :
    /\ txn[t].op = "leave" /\ txn[t].pc = "commit"
    /\ txn[t].res = Fail("User not in room")
    /\ Len(parts[<<txn[t].room, txn[t].user>>]) = 1
    /\ ~parts[<<txn[t].room, txn[t].user>>][1].is_active
    /\ rooms[txn[t].room].current_user_count > 0

\* C13: a heartbeat changes no room row and no room_participants row but the
\* caller's, and of that row only last_seen and only when the row is active; when
\* the caller has no active row it returns success = false and changes nothing.
C13_HeartbeatFrame ==
  [][\A t \in Slots :
       LET k == <<txn[t].room, txn[t].user>> IN
       Completes(t, "heartbeat")
       => /\ rooms' = rooms
          /\ \A k2 \in Keys \ {k} : parts'[k2] = parts[k2]
          /\ Len(parts'[k]) = Len(parts[k])
          /\ \A i \in 1..Len(parts[k]) :
               \/ parts'[k][i] = parts[k][i]
               \/ /\ parts[k][i].is_active
                  /\ parts'[k][i] = [parts[k][i] EXCEPT !.last_seen = now]
          /\ (\A i \in 1..Len(parts[k]) : ~parts[k][i].is_active)
             => (~txn[t].res.success /\ ~txn[t].res.raised /\ parts' = parts)]_vars

\* the heartbeat of an active member whose last_seen is in the past is about to
\* be committed
C13_Witness ==
  \E t \in Slots :
    /\ txn[t].op = "heartbeat" /\ txn[t].pc = "commit" /\ txn[t].res.success
    /\ Len(parts[<<txn[t].room, txn[t].user>>]) = 1
    /\ parts[<<txn[t].room, txn[t].user>>][1].is_active
    /\ parts[<<txn[t].room, txn[t].user>>][1].last_seen < now

\* C14: a join by an identity that already has a row (active or inactive) in an
\* active room is never rejected for capacity: it returns success with
\* already_member = true and leaves the identity active, whatever the occupancy.
C14_RejoinNeverRejected ==
  [][\A t \in Slots :
       LET r == txn[t].room
           k == <<txn[t].room, txn[t].user>>
       IN (/\ Completes(t, "join")
           /\ rooms[r].exists /\ rooms[r].status = "active"
           /\ parts[k] # <<>>)
          => /\ txn[t].res = Ok(TRUE)
             /\ \A i \in 1..Len(parts'[k]) : parts'[k][i].is_active]_vars

\* C15: no join, leave or regenerate call ends with a store exception (a check or
\* unique violation): every one returns a result with a success flag.
C15_NeverRaises ==
  \A t \in Slots :
    txn[t].op \in {"join", "leave", "regenerate"}
    => ~txn[t].res.raised /\ txn[t].pc # "failed"

\* C16: for the room role a client has resolved, canEdit iff the role is member,
\* canComment iff it is member or organizer, canKick iff it is organizer,
\* isReadOnly iff it is organizer or judge; with no role all four are false; so
\* canEdit and isReadOnly are never both true and canKick implies canComment.
C16_Permissions ==
  \A c \in Clients :
    LET role == roomRole[c] IN
    /\ role \in RoomRoles \cup {NoRole}
    /\ CanEdit(role) <=> role = "member"
    /\ CanComment(role) <=> role \in {"member", "organizer"}
    /\ CanKick(role) <=> role = "organizer"
    /\ IsReadOnly(role) <=> role \in {"organizer", "judge"}
    /\ role = NoRole => ~(CanEdit(role) \/ CanComment(role) \/ CanKick(role) \/ IsReadOnly(role))
    /\ ~(CanEdit(role) /\ IsReadOnly(role))
    /\ CanKick(role) => CanComment(role)

\* a client has resolved the organizer role for the room
C16_Witness == \E c \in Clients : roomRole[c] = "organizer" /\ last.op = "fetchRoomRole"

C18_OnlyOrganizersChangeRoles ==
  [][user_roles' # user_roles
     => /\ last'.op \in {"role_insert", "role_update", "role_delete"}
        /\ <<last'.user, "organizer">> \in user_roles
        /\ \E u \in RoleUsers : <<u, "organizer">> \in user_roles]_vars

\* a mutation has just been refused in a table that holds roles but no organizer
C18_Witness ==
  /\ last.op \in {"role_insert", "role_update", "role_delete"}
  /\ ~last.res.success
  /\ user_roles # {}
  /\ \A u \in RoleUsers : <<u, "organizer">> \notin user_roles

\* the presence state of a (room, identity): no row, an active row, or none active
Presence(rows) ==
  IF rows = <<>> THEN "Unjoined"
  ELSE IF \E i \in 1..Len(rows) : rows[i].is_active THEN "Active"
  ELSE "Inactive"

\* the call that commits in this step is op for key k
Commits(t, op, k) ==
  /\ Completes(t, op) /\ txn[t].pc = "commit"
  /\ (op # "sweep" => k = <<txn[t].room, txn[t].user>>)

\* C19: per (room, identity) the presence state changes only from Unjoined to
\* Active by a successful first join, from Active to Inactive by a successful leave
\* or by a sweep that found last_seen older than the threshold, and from Inactive
\* to Active by a successful rejoin; the row of an Active pair changes only by a
\* join or a heartbeat; no step removes a row, so no pair returns to Unjoined.
C19_PresenceTransitions ==
  [][\A k \in Keys :
       LET a == Presence(parts[k])
           b == Presence(parts'[k])
       IN /\ Len(parts'[k]) >= Len(parts[k])
          /\ b = "Unjoined" => a = "Unjoined"
          /\ (a = "Unjoined" /\ b # "Unjoined")
             => /\ b = "Active"
                /\ \E t \in Slots : Commits(t, "join", k) /\ txn[t].res = Ok(FALSE)
          /\ (a = "Active" /\ b = "Inactive")
             => \/ \E t \in Slots : Commits(t, "leave", k) /\ txn[t].res.success
                \/ /\ \E t \in Slots : Commits(t, "sweep", k)
                   /\ \A i \in 1..Len(parts[k]) :
                        parts[k][i].is_active => parts[k][i].last_seen < now - LivenessThreshold
          /\ (a = "Inactive" /\ b = "Active")
             => \E t \in Slots : Commits(t, "join", k) /\ txn[t].res = Ok(TRUE)
          /\ (a = "Active" /\ b = "Active" /\ parts'[k] # parts[k])
             => \E t \in Slots : Commits(t, "join", k) \/ Commits(t, "heartbeat", k)]_vars

\* a sweep is about to commit the eviction of a member whose last_seen is older
\* than the threshold
C19_Witness ==
  \E t \in Slots, k \in Keys :
    /\ txn[t].op = "sweep" /\ txn[t].pc = "commit"
    /\ k \in DOMAIN txn[t].wparts
    /\ Presence(parts[k]) = "Active"
    /\ Presence(txn[t].wparts[k]) = "Inactive"
    /\ parts[k][1].last_seen < now - LivenessThreshold

\* C20: join_room decides in this order: no such room ('Room not found'), room
\* not active ('Room is not active', for members and the creator too), the rejoin
\* path for an identity with a row, the join-code check for a new identity that is
\* not the creator of a private room ('Invalid join code'), the capacity check
\* ('Room full'), and only then the admission of a new member.
C20_CheckOrder ==
  [][\A t \in Slots :
       Completes(t, "join") =>
         LET r == txn[t].room
             u == txn[t].user
             room == rooms[r]
             res == txn[t].res
         IN IF ~room.exists THEN res = Fail("Room not found")
            ELSE IF room.status # "active" THEN res = Fail("Room is not active")
            ELSE IF parts[<<r, u>>] # <<>>
            THEN /\ res.error \notin {"Room not found", "Room is not active", "Invalid join code"}
                 /\ res # RoomFullError
                 /\ res.success => res.already_member
            ELSE IF room.is_private /\ room.created_by # u
                    /\ (txn[t].code = NoCode \/ txn[t].code # room.join_code)
            THEN res = Fail("Invalid join code")
            ELSE IF room.current_user_count >= room.max_participants
            THEN res = RoomFullError
            ELSE res = Ok(FALSE)]_vars

\* a new identity that is not the creator is refused for its join code by a full
\* private room
C20_Witness ==
  \E t \in Slots :
    /\ txn[t].op = "join" /\ txn[t].pc = "commit"
    /\ txn[t].res = Fail("Invalid join code")
    /\ rooms[txn[t].room].is_private
    /\ rooms[txn[t].room].created_by # txn[t].user
    /\ parts[<<txn[t].room, txn[t].user>>] = <<>>
    /\ rooms[txn[t].room].current_user_count >= rooms[txn[t].room].max_participants
    /\ ActiveCount(parts, txn[t].room) = MaxParticipants

\* C21: each debouncer has at most one refetch pending; while notifications have
\* arrived since its callback last ran, the one pending timer is due one debounce
\* window after the last of them, and the callback runs only then, once for the
\* whole burst.
C21_OneRefetchPerBurst ==
  /\ [](\A d \in Debouncers :
          LET pending == {x \in timers : x.deb = d} IN
          /\ Cardinality(pending) <= 1
          /\ note[d].burst > 0 <=> pending # {}
          /\ \A x \in pending : x.due = note[d].at + DebounceDelay /\ x.due >= clock)
  /\ [][\A d \in Debouncers :
          note'[d].runs # note[d].runs
            => /\ note'[d].runs = note[d].runs + 1
               /\ note[d].burst >= 1
               /\ clock = note[d].at + DebounceDelay
               /\ {x \in timers' : x.deb = d} = {}]_vars

\* one run of the callback has ended a burst of three notifications
C21_Witness ==
  \E d \in Debouncers : note[d].runs = 1 /\ note[d].coalesced = 3 /\ note[d].burst = 0

\* C22: neither the local message list nor the local suggestion list ever holds
\* the same id twice, whatever the fetches return and however often an insert
\* notification is delivered.
C22_NoDuplicateIds ==
  /\ \A i, j \in 1..Len(messages) : messages[i] = messages[j] => i = j
  /\ \A i, j \in 1..Len(suggestions) : suggestions[i] = suggestions[j] => i = j

\* both handlers have dropped a notification for a row their list already held,
\* and the suggestion list is at its limit
C22_Witness ==
  /\ suppressed.messages /\ suppressed.suggestions
  /\ Len(messages) >= 2
  /\ Len(suggestions) = SuggestionLimit

\* C23: while no fetch succeeds, a call of fetchRoom retries at most maxRetries
\* times and comes to an end; the failure that finds the retries used up sets the
\* error 'Room not found' and returns null, and a fetch that succeeds stores the
\* room and sets the retry counter to 0.
C23_FetchRoomBounded ==
  /\ [](retryCount <= MaxRetries /\ \A k \in FetchCalls : fetchRoom[k].retries <= MaxRetries)
  /\ [][\A k \in FetchCalls :
          /\ (fetchRoom[k].pc = "query" /\ fetchRoom'[k].pc = "idle" /\ fetchRoom'[k].ret = "data")
               => (hookRoom' = rooms["r1"] /\ retryCount' = 0)
          /\ (fetchRoom[k].pc = "query" /\ fetchRoom'[k].pc = "backoff")
               => (retryCount < MaxRetries /\ retryCount' = retryCount + 1)
          /\ (fetchRoom[k].pc = "query" /\ fetchRoom'[k].pc = "idle" /\ fetchRoom'[k].ret = "null"
              /\ error' # "Failed to load room")
               => (retryCount = MaxRetries /\ error' = "Room not found" /\ hookRoom' = hookRoom)]_vars
  /\ \A k \in FetchCalls, e \in {0, 1} :
       (fetchRoom[k].pc # "idle" /\ epoch = e) ~> (fetchRoom[k].pc = "idle" \/ epoch # e)

\* a call has used up the retries and ended with the error 'Room not found'
C23_Witness ==
  \E k \in FetchCalls :
    /\ fetchRoom[k].pc = "idle" /\ fetchRoom[k].ret = "null" /\ fetchRoom[k].retries = MaxRetries
    /\ retryCount = MaxRetries
    /\ error = "Room not found"

\* slot t starts a call op of hook c in this step
Starts(t, op, c) == txn[t].pc = "idle" /\ txn'[t].op = op /\ owner'[t] = c

Ends(t, op, c) == owner[t] = c /\ txn[t].op = op /\ txn[t].pc # "idle" /\ txn'[t].pc = "idle"

\* C29: a heartbeat that ends, whatever its result, leaves the hook's joined flag,
\* its error state and its interval as they are, and the interval keeps sending
\* while the flag is set; a heartbeat call starts only while the flag is set,
\* which a successful join sets and only a leave that got an answer clears.
C29_HeartbeatFailureSwallowed ==
  /\ [](\A c \in Clients : mounted[c] => (beatAt[c] >= now /\ beatAt[c] <= now + HeartbeatPeriod))
  /\ [][\A c \in Clients :
          /\ \A t \in Slots : Starts(t, "heartbeat", c) => isJoined[c]
          /\ \A t \in Slots :
               Ends(t, "heartbeat", c)
                 => (isJoined'[c] = isJoined[c] /\ error' = error /\ beatAt'[c] = beatAt[c])
          /\ (mounted[c] /\ beatAt[c] = now /\ beatAt'[c] > now /\ isJoined[c])
               => \E t \in Slots : Starts(t, "heartbeat", c)
          /\ (isJoined'[c] /\ ~isJoined[c])
               => \E t \in Slots : Ends(t, "join", c) /\ txn[t].res.success
          /\ (~isJoined'[c] /\ isJoined[c])
               => \/ \E t \in Slots : Ends(t, "leave", c) /\ txn[t].pc = "commit"
                  \/ (~mounted[c] /\ mounted'[c])]_vars

\* a heartbeat of a hook whose flag is set is about to return success = false,
\* and the hook's interval is still set
C29_Witness ==
  \E t \in Slots, c \in Clients :
    /\ owner[t] = c /\ mounted[c] /\ isJoined[c]
    /\ txn[t].op = "heartbeat" /\ txn[t].pc = "commit"
    /\ txn[t].res = Fail("Participant not found")
    /\ beatAt[c] > now

\* C28: the member row of a hook that is mounted and joined, all of whose
\* heartbeats are delivered, is never older than one heartbeat period, so it is
\* never older than the liveness threshold, and no sweep marks it inactive.
C28_NoFalseEviction ==
  /\ [](\A c \in Clients :
          (mounted[c] /\ isJoined[c])
            => \A i \in ActiveRows(parts[<<"r1", c>>]) :
                 /\ parts[<<"r1", c>>][i].last_seen >= now - HeartbeatPeriod
                 /\ ~(parts[<<"r1", c>>][i].last_seen < now - LivenessThreshold))
  /\ [][\A c \in Clients :
          (mounted[c] /\ isJoined[c] /\ ActiveRows(parts[<<"r1", c>>]) # {}
           /\ ActiveRows(parts'[<<"r1", c>>]) = {})
            => ~\E t \in Slots : txn[t].op = "sweep" /\ txn[t].pc = "commit"
                                 /\ txn'[t].pc = "idle"]_vars

\* a sweep is about to commit more than a liveness threshold after the start,
\* with the hook mounted and joined and its member row active and fresh
C28_Witness ==
  \E t \in Slots, c \in Clients :
    /\ txn[t].op = "sweep" /\ txn[t].pc = "commit"
    /\ mounted[c] /\ isJoined[c]
    /\ now > LivenessThreshold
    /\ ActiveRows(parts[<<"r1", c>>]) # {}
    /\ beatAt[c] > now

\* C25: of the leave calls of one identity that run while it is active, at most
\* one returns success, and the occupancy goes down by one in total: no leave
\* returns success right after a successful leave of the same identity (between
\* the two there is no join), and none lowers the occupancy a second time.
C25_OneLeaveSucceeds ==
  \A t \in Slots :
    (txn[t].op = "leave" /\ txn[t].pc = "commit"
     /\ last.op = "leave" /\ last.room = txn[t].room /\ last.user = txn[t].user
     /\ last.res.success)
      => /\ ~txn[t].res.success
         /\ RoomsOf(t)[txn[t].room].current_user_count = rooms[txn[t].room].current_user_count

\* C26: a sweep pass writes, and so locks, only participant rows that are active
\* with last_seen older than the threshold, and only the rows of the rooms those
\* participants are in; every other room row is left alone.
C26_SweepTouchesOnlyStale ==
  \A t \in Slots :
    txn[t].op = "sweep"
      => /\ \A k \in DOMAIN txn[t].wparts :
              \E i \in 1..Len(parts[k]) :
                parts[k][i].is_active /\ parts[k][i].last_seen < now - LivenessThreshold
         /\ DOMAIN txn[t].wrooms \subseteq {k[1] : k \in DOMAIN txn[t].wparts}

\* C27: sweeps that run at the same time as each other and as a join or a leave
\* on the same room end in a ledger where every room's occupancy equals its number
\* of active rows: whenever no call is in flight the two agree.
C27_SweepsConverge ==
  NoneInFlight
    => \A r \in RoomIds : rooms[r].exists => rooms[r].current_user_count = ActiveCount(parts, r)

\* C30: opening the Room page makes nobody a member who holds the global role
\* organizer or judge and has no participant row in the room: the join the page
\* makes for them, if any, creates no row and leaves the occupancy as it was.
C30_ObserverStaysOut ==
  [][\A c \in Clients, t \in Slots :
       LET r == txn[t].room IN
       (Ends(t, "join", c) /\ (HasRole(c, "organizer") \/ HasRole(c, "judge"))
        /\ parts[<<r, c>>] = <<>>)
         => /\ parts'[<<r, c>>] = <<>>
            /\ rooms'[r].current_user_count = rooms[r].current_user_count]_vars

\* C31: a join that returns success = false (room not found, room not active,
\* invalid join code, room full) leaves the ledger as it was: every participant
\* row and every room row, with its occupancy, join code and timestamp, keeps its
\* value when the call ends.
C31_FailedJoinFrame ==
  [][\A t \in Slots :
       (Completes(t, "join") /\ txn[t].pc = "commit" /\ ~txn[t].res.success)
         => /\ parts' = parts
            /\ rooms' = rooms
            /\ txn[t].res.error \in {"Room not found", "Room is not active",
                                     "Invalid join code", RoomFullError.error}]_vars

\* a join by a new identity with the right code is about to end refused by a
\* full room
C31_Witness ==
  \E t \in Slots :
    /\ txn[t].op = "join" /\ txn[t].pc = "commit"
    /\ txn[t].res = RoomFullError
    /\ txn[t].code = rooms[txn[t].room].join_code
    /\ parts[<<txn[t].room, txn[t].user>>] = <<>>

\* C32: once the joins and leaves of a room have stopped and the client stays
\* mounted, with its interval firing and its notifications, timers and fetches
\* served in any order, the client's participant list comes to equal the set of
\* the room's active participants and its occupancy the room's, and both stay so.
C32_ViewConverges ==
  <>[](/\ \A c \in Clients : mounted[c]
       /\ participants = ActiveParticipants(parts, "r1")
       /\ hookRoom.exists
       /\ hookRoom.current_user_count = rooms["r1"].current_user_count)

\* the joins and leaves are over and the view agrees with the ledger while a
\* response that was overtaken, carrying an older participant list, is yet to come
C32_Witness ==
  /\ budget = 0 /\ NoneInFlight
  /\ \A c \in Clients : mounted[c]
  /\ participants = ActiveParticipants(parts, "r1")
  /\ participants # {}
  /\ hookRoom.exists /\ hookRoom.current_user_count = rooms["r1"].current_user_count
  /\ \E data \in reqs["participants"].answered : data # ActiveParticipants(parts, "r1")

\* C33: a message that an insert notification has put into the client's local
\* list is in the list in every later state: no step, and in particular no
\* response of fetchMessages arriving after the notification, takes it out.
C33_NotifiedMessageStays ==
  [][\A id \in 1..MaxMessages : Has(messages, id) => Has(messages', id)]_vars

\* C34: the join code gates only new memberships. In an active private room a
\* join by an identity that has a row, active or not, succeeds whatever code it
\* presents (none, or one the creator has since replaced), and a join by a new
\* identity that is not the creator and presents a code other than the room's
\* current one (the old code, after a regeneration) is refused for its code.
C34_CodeGatesNewOnly ==
  [][\A t \in Slots :
       LET r == txn[t].room
           k == <<txn[t].room, txn[t].user>>
       IN (/\ Completes(t, "join")
           /\ rooms[r].exists /\ rooms[r].status = "active" /\ rooms[r].is_private)
          => /\ parts[k] # <<>> => txn[t].res.success
             /\ (parts[k] = <<>> /\ rooms[r].created_by # txn[t].user
                 /\ txn[t].code # rooms[r].join_code)
                => txn[t].res = Fail("Invalid join code")]_vars

\* C35: the insert of createRoom succeeds for every room, also when rooms are
\* created one after another, and gives the new room a join code of six
\* characters of the code alphabet, never the empty text, that no other room has.
C35_CreatedRoomsHaveCodes ==
  [][/\ (last' # last /\ last'.op = "create") => last'.res.success
     /\ \A r \in RoomIds :
          (~rooms[r].exists /\ rooms'[r].exists)
            => /\ Len(rooms'[r].join_code) = CodeLength
               /\ \A i \in 1..Len(rooms'[r].join_code) :
                    \E j \in 1..Len(Chars) : Chars[j] = rooms'[r].join_code[i]
               /\ \A r2 \in RoomIds \ {r} :
                    rooms'[r2].exists => rooms'[r2].join_code # rooms'[r].join_code]_vars

\* C36: in every reachable state the occupancy of every room is between 0 and its
\* capacity, whatever joins, leaves and sweeps have run; a leave that returns
\* success leaves the occupancy one lower than before it, or at zero when it was
\* zero.
C36_OccupancyInRange ==
  /\ [](\A r \in RoomIds :
          rooms[r].exists =>
            /\ rooms[r].current_user_count >= 0
            /\ rooms[r].current_user_count <= rooms[r].max_participants)
  /\ [][\A t \in Slots :
          (Completes(t, "leave") /\ txn[t].res.success)
            => LET n == rooms[txn[t].room].current_user_count
               IN rooms'[txn[t].room].current_user_count = IF n = 0 THEN 0 ELSE n - 1]_vars

\* a leave is about to return success in a room whose occupancy is already zero
\* while a member is still active in it: the decrement stops at the floor
C36_Witness ==
  \E t \in Slots :
    /\ txn[t].op = "leave" /\ txn[t].pc = "commit" /\ txn[t].res.success
    /\ rooms[txn[t].room].current_user_count = 0
    /\ txn[t].wrooms[txn[t].room].current_user_count = 0
    /\ ActiveCount(parts, txn[t].room) > 0

\* C37: the multi-device flag of the page equals, for the participant list the
\* client holds, the predicate: more than one active row of the caller, or one
\* whose device id is not the client's stored one.
C37_FlagIsPredicate ==
  LET mine == {q \in participants : q.user_id = 1} IN
  multiDeviceWarning
    = (Cardinality(mine) > 1 \/ (Cardinality(mine) = 1 /\ \A q \in mine : q.device_id # StoredDevice))

\* C38: a join or a leave of identity u in room r changes no participant row but
\* those of (r, u) and no room row but that of r: every other participant keeps
\* its active flag, last_seen and device id, and every other room its occupancy.
C38_JoinLeaveFrame ==
  [][\A t \in Slots :
       (Completes(t, "join") \/ Completes(t, "leave"))
         => /\ \A k \in Keys : k # <<txn[t].room, txn[t].user>> => parts'[k] = parts[k]
            /\ \A r \in RoomIds : r # txn[t].room => rooms'[r] = rooms[r]]_vars

\* identity 2 is about to leave r1 with success while other members are active
\* in r1 and its own row in r2 is active
C38_Witness ==
  \E t \in Slots :
    /\ txn[t].op = "leave" /\ txn[t].pc = "commit" /\ txn[t].res.success
    /\ txn[t].room = "r1" /\ txn[t].user = 2
    /\ ActiveRows(parts[<<"r2", 2>>]) # {}
    /\ rooms["r2"].current_user_count = 1
    /\ \E u \in Users \ {2} : ActiveRows(parts[<<"r1", u>>]) # {}

\* C39: every call of fetchRoom has the whole retry budget: it starts with the
\* retry counter at 0, and when it gives up with 'Room not found' it has made
\* maxRetries retries, that is maxRetries + 1 attempts, whatever earlier calls
\* and calls running at the same time have done.
C39_FullRetryBudget ==
  [][\A k \in FetchCalls :
       /\ (fetchRoom[k].pc = "idle" /\ fetchRoom'[k].pc = "query") => retryCount = 0
       /\ (fetchRoom[k].pc = "query" /\ fetchRoom'[k].pc = "idle"
           /\ fetchRoom'[k].ret = "null" /\ error' = "Room not found")
          => fetchRoom[k].retries = MaxRetries]_vars

\* a hook that has loaded the room's messages sends messages, the inserts of
\* its own and of other clients are notified to it in any order, and the
\* invocations of the suggestion service succeed or fail
ChatSeeds == {0, 4}

InitChat ==
  /\ rooms = InitRooms
  /\ parts = NoParts
  /\ InitCalls
  /\ user_roles = {}
  /\ roles = [c \in Clients |-> {}]
  /\ roomRole = [c \in Clients |-> NoRole]
  /\ InitDebounce
  /\ InitLoad
  /\ InitBeat
  /\ InitPage
  /\ InitView
  /\ InitSend
  /\ room_messages \in ChatSeeds
  /\ messages = MessagesQuery(room_messages)
  /\ room_ai_suggestions = 0
  /\ suggestions = <<>>
  /\ fetching = [messages |-> NoFetch, suggestions |-> NoFetch]
  /\ suppressed = [messages |-> FALSE, suggestions |-> FALSE]

NextChat ==
  \/ \E content \in Contents : SendMessage(content)
  \/ \E ok \in BOOLEAN : MessageInserted(ok)
  \/ \E ok \in BOOLEAN : ModeratorSettles(ok)
  \/ InsertMessage
  \/ \E id \in 1..MaxSends : OnMessageInsert(id)

SpecChat == InitChat /\ [][NextChat]_vars

\* C40: the suggestion service is invoked once by every send that makes the
\* room's message count a multiple of five and by no other send, and an
\* invocation that fails changes neither the result of the send nor any state
\* of the client.
C40_ModeratedEveryFifth ==
  [][/\ (sending.pc = "insert" /\ sending'.ret = "success")
        => moderator'.calls - moderator.calls =
             IF room_messages' % ModerationEvery = 0 THEN 1 ELSE 0
     /\ moderator'.skipped > moderator.skipped
        => UNCHANGED <<sending, feedVars, loadVars, beatVars, pageVars, viewVars>>]_vars

====
